---- MODULE Spec2Model ----
(***************************************************************************)
(* Model of the serving layer of ml_cli: the module globals of             *)
(* ml_cli/api/main.py, the startup loader (startup_event, load_model,      *)
(* get_config_output_dir) and the request handlers.                        *)
(*                                                                         *)
(* Granularity: startup_event and the handlers are ordinary Python         *)
(* functions run by different threads (lifespan / thread pool), so every   *)
(* statement that reads or writes a module global is a step of its own.    *)
(* Objects produced by one successful load_model call carry the number of  *)
(* that load (gen), which stands for object identity; gen 0 is None.       *)
(*                                                                         *)
(* make_predictions and format_prediction_response are functions of their  *)
(* arguments; the variable decode holds one application of them to a raw   *)
(* pipeline output (SpecDecode).  The variable util holds one application  *)
(* of a function of ml_cli/utils/utils.py or of the encoding applier to an *)
(* argument (SpecUtils).  The variable disk is the working directory of    *)
(* the command line: its files and its .artifacts.log (SpecClean).         *)
(***************************************************************************)
EXTENDS Integers, Sequences, FiniteSets, TLC

VARIABLES pipeline, feature_info, PredictionPayload, sample_input_for_docs,
          encoders, loads, st, crashed, req, decode, util, disk

vars == <<pipeline, feature_info, PredictionPayload, sample_input_for_docs,
          encoders, loads, st, crashed, req, decode, util, disk>>

globals == <<pipeline, feature_info, PredictionPayload, sample_input_for_docs,
             encoders>>

\* The state of the server process.
server == <<globals, loads, st, crashed, req>>

\* The functions and the command that run outside the server's requests.
offline == <<decode, util, disk>>

(***************************************************************************)
(* Bounds                                                                  *)
(***************************************************************************)
MaxLoads == 2

MaxBatch == 2

\* The rows and the columns of the raw outputs given to make_predictions.
MaxRows == 2

MaxCols == 3

(***************************************************************************)
(* Values: JSON scalars of a payload.  A string and an integer are kept    *)
(* apart by the tag, so that an encoded value differs from a raw one.      *)
(***************************************************************************)
Str(s) == [t |-> "str", s |-> s, i |-> 0]

Num(n) == [t |-> "num", s |-> "", i |-> n]

SeqToSet(s) == {s[k] : k \in 1..Len(s)}

\* Position of v in the sequence s (1-based), 0 when absent.
IndexOf(s, v) ==
    IF \E k \in 1..Len(s) : s[k] = v
    THEN CHOOSE k \in 1..Len(s) : s[k] = v /\ \A j \in 1..(k-1) : s[j] # v
    ELSE 0

\* [f for f in s if P(f)], keeping the order of s.
RECURSIVE Filter(_, _)
Filter(s, keep) ==
    IF s = <<>> THEN <<>>
    ELSE IF Head(s) \in keep THEN <<Head(s)>> \o Filter(Tail(s), keep)
         ELSE Filter(Tail(s), keep)

(***************************************************************************)
(* Contents the files of the artifact directory may have.                  *)
(***************************************************************************)
\* feature_info.json documents (the keys the serving layer reads).
\* has_categorical tells whether the document has a 'categorical_features' key.
SchemaA == [feature_names |-> <<"a", "color", "size">>,
            task_type |-> "classification", target_column |-> "y",
            has_categorical |-> TRUE]

SchemaB == [feature_names |-> <<"color", "a">>,
            task_type |-> "regression", target_column |-> "",
            has_categorical |-> FALSE]

FeatureInfoDocs == {SchemaA, SchemaB}

\* encoders.pkl documents: a dict (insertion-ordered) of LabelEncoders, each
\* with its sorted classes_.
EncodersA == << [name |-> "color", classes_ |-> <<"blue", "red">>],
                [name |-> "size",  classes_ |-> <<"L", "S">>] >>

EncodersB == << [name |-> "color", classes_ |-> <<"green", "red">>] >>

\* An encoders.pkl that holds an empty dict.
EncodersNone == << >>

EncoderDocs == {EncodersA, EncodersB, EncodersNone}

\* What a read of the configuration file can meet.
ConfigStates == {"absent", "unparsable", "empty", "no_output_dir", "ok"}

\* What a read of pycaret_model.pkl / feature_info.json / encoders.pkl can meet.
FileStates == {"absent", "corrupt", "ok"}

\* The names under which an artifact directory may hold its fitted pipeline:
\* the one load_model reads, the one training writes and the one `ml serve`
\* checks for.
PipelineFileNames == {"pycaret_model.pkl", "lightautoml_model.pkl",
                      "fitted_pipeline.pkl"}

\* utils.py line 463: the file load_model reads.
ModelFileName == "pycaret_model.pkl"

\* The state of file `name` in a directory that holds its pipeline, in
\* state `file`, under `held`.
FileAt(name, held, file) == IF name = held THEN file ELSE "absent"

(***************************************************************************)
(* None and the loaded objects                                             *)
(***************************************************************************)
NoneFeatureInfo == [gen |-> 0, feature_names |-> <<>>, task_type |-> "",
                    target_column |-> "", has_categorical |-> FALSE]

NoneSample == [gen |-> 0, example |-> <<>>]

NoneEncoders == [gen |-> 0, items |-> <<>>]

NoneResult == [raised |-> FALSE, pipeline |-> 0, feature_info |-> NoneFeatureInfo,
               PredictionPayload |-> 0, sample_input_for_docs |-> NoneSample]

\* A number with decimals, given in thousandths; a whole number is the
\* Num of the payloads.
Dec(m) == IF m % 1000 = 0 THEN Num(m \div 1000)
          ELSE [t |-> "milli", s |-> "", i |-> m]

\* round(value, 2) on a number given in thousandths: the nearest hundredth,
\* a tie going to the even one (the ties met here, such as 0.125, are exact
\* in binary, so Python rounds them as ties).
Round2(m) ==
    LET a == IF m < 0 THEN -m ELSE m
        q == a \div 10
        r == a % 10
        up == r > 5 \/ (r = 5 /\ q % 2 = 1)
        mag == (IF up THEN q + 1 ELSE q) * 10
    IN IF m < 0 THEN -mag ELSE mag

\* A statistic a feature's entry of feature_statistics does not have.
NoStat == [has |-> FALSE, m |-> 0]

Stat(m) == [has |-> TRUE, m |-> m]

\* Mutant: the median is preferred to the mean.
ExampleValue_MedianFirst(entry) ==
    IF entry.kind # "dict" THEN 1000
    ELSE IF entry.median.has THEN Round2(entry.median.m)
    ELSE IF entry.mean.has THEN Round2(entry.mean.m)
    ELSE IF entry.min.has /\ entry.max.has
         THEN Round2((entry.min.m + entry.max.m) \div 2)
    ELSE 1000

\* Lines 432-449: the example value of one feature, in thousandths, from
\* its entry of feature_statistics (kind "absent": no entry; "other": an
\* entry that is not a dict).  The sums of a min and a max met here are even
\* in thousandths, so the midpoint is exact.
ExampleValue(entry) ==
    IF entry.kind # "dict" THEN 1000
    ELSE IF entry.mean.has THEN Round2(entry.mean.m)
    ELSE IF entry.median.has THEN Round2(entry.median.m)
    ELSE IF entry.min.has /\ entry.max.has
         THEN Round2((entry.min.m + entry.max.m) \div 2)
    ELSE 1000

\* generate_realistic_example_from_stats: with feature_statistics every
\* feature name gets the value of its entry, without them every feature
\* name gets 1.0.
generate_realistic_example_from_stats(doc) ==
    IF "feature_statistics" \in DOMAIN doc
    THEN [k \in 1..Len(doc.feature_names) |->
             [name |-> doc.feature_names[k],
              value |-> Dec(ExampleValue(
                            doc.feature_statistics[doc.feature_names[k]]))]]
    ELSE [k \in 1..Len(doc.feature_names) |->
             [name |-> doc.feature_names[k], value |-> Num(1)]]

\* load_pycaret_model(output_dir, task_type), which load_model imports from
\* ml_cli.core.predict: it deserializes the pipeline file and raises when the
\* file cannot be deserialized.  Its definition is not among the sources (the
\* module defines load_lightautoml_model); it is modelled from its call in
\* load_model and from section 4.1 of the specification.
load_pycaret_model(file) == IF file = "ok" THEN "pipeline" ELSE "raise"

RaisedResult == [NoneResult EXCEPT !.raised = TRUE]

\* load_model(output_dir): the 4-tuple it returns, or the exception raised.
load_model(modelFile, infoFile, doc, g) ==
    IF modelFile = "absent" \/ infoFile = "absent" THEN NoneResult
    ELSE IF infoFile = "corrupt" THEN RaisedResult
    ELSE IF load_pycaret_model(modelFile) = "raise" THEN RaisedResult
    ELSE [raised |-> FALSE, pipeline |-> g,
          feature_info |-> [gen |-> g, feature_names |-> doc.feature_names,
                            task_type |-> doc.task_type,
                            target_column |-> doc.target_column,
                            has_categorical |-> doc.has_categorical],
          PredictionPayload |-> IF Len(doc.feature_names) > 0 THEN g ELSE 0,
          sample_input_for_docs |->
              [gen |-> g, example |-> generate_realistic_example_from_stats(doc)]]

\* get_config_output_dir(config_path): "output" (the default or the configured
\* directory), or "raise" when yaml.safe_load gives None and config.get fails.
get_config_output_dir(cfg) == IF cfg = "empty" THEN "raise" ELSE "output"


(***************************************************************************)
(* Request inputs                                                          *)
(***************************************************************************)
Keys == {"a", "color", "size", "x"}

\* The values a client may send under a key.
KeyValues(k) ==
    CASE k = "a" -> {Num(1)}
      [] k = "color" -> {Str("red"), Str("green"), Num(3)}
      [] k = "size" -> {Str("S"), Str("XL")}
      [] OTHER -> {Num(7)}

AllValues == UNION {KeyValues(k) : k \in Keys}

\* JSON objects: mappings from some keys to values.
Payloads ==
    {p \in UNION {[S -> AllValues] : S \in SUBSET Keys} :
        \A k \in DOMAIN p : p[k] \in KeyValues(k)}

\* The samples batches are built from.
BatchSamples ==
    {p \in Payloads :
        /\ "x" \notin DOMAIN p
        /\ "a" \in DOMAIN p
        /\ ("size" \in DOMAIN p => p["size"] = Str("S"))}

\* Bodies of POST /predict/batch: without "samples", with a "samples" that is
\* not a list, or with a list of up to MaxBatch samples (possibly empty).
BatchBodies ==
    {[form |-> "nokey", samples |-> <<>>], [form |-> "notlist", samples |-> <<>>]}
    \cup {[form |-> "list", samples |-> ss] :
            ss \in UNION {[1..n -> BatchSamples] : n \in 0..MaxBatch}}

\* The requests sent while a load is running.
FewPayloads ==
    {p \in Payloads :
        \/ p = [k \in {"a", "color", "size"} |->
                  CASE k = "a" -> Num(1) [] k = "color" -> Str("red")
                    [] OTHER -> Str("S")]
        \/ p = [k \in {"color"} |-> Str("green")]}

FewBodies ==
    {b \in BatchBodies :
        /\ b.form = "list"
        /\ Len(b.samples) > 0
        /\ \A i \in 1..Len(b.samples) :
              b.samples[i] \in FewPayloads /\ b.samples[i] = b.samples[1]}

(***************************************************************************)
(* apply_categorical_encoding                                              *)
(***************************************************************************)
\* A response: the status, the category of the detail string and the parts the
\* detail string is built from, or the body of a 200 answer.
NoError == [status |-> 0, kind |-> "", feature |-> "", value |-> Num(0),
            valid |-> <<>>, missing |-> <<>>, index |-> -1,
            results |-> <<>>, total_samples |-> 0, task_type |-> "",
            model_loaded |-> FALSE, info |-> <<>>]

HTTPException(status, kind) == [NoError EXCEPT !.status = status, !.kind = kind]

\* An exception that is not an HTTPException (a TypeError, an
\* AttributeError): it has no status.
RawException(name) == [NoError EXCEPT !.kind = name]

\* Mutant: the handlers have no last `except Exception` clause.
OuterExcept_Reraise(e) == e

\* Lines 238-242 / 338-342: an HTTPException is raised again, any other
\* exception becomes a 400 'Prediction error'.
OuterExcept(e) ==
    IF e.status # 0 THEN e ELSE HTTPException(400, "prediction_error")

\* Lines 181-185 / 281-285: an HTTPException is raised again, any other
\* exception becomes a 400 'Encoding error'.
EncodingExcept(e) ==
    IF e.status # 0 THEN e ELSE HTTPException(400, "encoding_error")

\* A sample of a batch that is not a JSON object but a number.
NumberSample == [k \in {"<number>"} |-> Num(5)]

IsMapping(sample) == "<number>" \notin DOMAIN sample

\* `original_value not in encoder.classes_`
IsKnownClass(v, classes_) == v.t = "str" /\ v.s \in SeqToSet(classes_)

\* Mutant: the code counts from one.
Transform_OneBased(v, classes_) == Num(IndexOf(classes_, v.s))

\* int(encoder.transform([value])[0]): the position in the sorted classes_.
Transform(v, classes_) == Num(IndexOf(classes_, v.s) - 1)

\* Mutant: a feature of the Encoder Set the payload lacks is added with code 0.
RECURSIVE EncodeFrom_AddsMissing(_, _, _)
EncodeFrom_AddsMissing(encoded, items, k) ==
    IF k > Len(items) THEN [err |-> NoError, payload |-> encoded]
    ELSE LET name == items[k].name
             classes_ == items[k].classes_
         IN IF name \in DOMAIN encoded
            THEN IF ~IsKnownClass(encoded[name], classes_)
                 THEN [err |-> [HTTPException(400, "unknown_value") EXCEPT
                                   !.feature = name, !.value = encoded[name],
                                   !.valid = classes_],
                       payload |-> encoded]
                 ELSE EncodeFrom_AddsMissing(
                          [encoded EXCEPT ![name] =
                              Transform(encoded[name], classes_)],
                          items, k + 1)
            ELSE EncodeFrom_AddsMissing(
                     [x \in DOMAIN encoded \cup {name} |->
                         IF x = name THEN Num(0) ELSE encoded[x]],
                     items, k + 1)

\* The loop of lines 104-119 from item k on, over the copy `encoded`.
RECURSIVE EncodeFrom(_, _, _)
EncodeFrom(encoded, items, k) ==
    IF k > Len(items) THEN [err |-> NoError, payload |-> encoded]
    ELSE LET name == items[k].name
             classes_ == items[k].classes_
         IN IF name \in DOMAIN encoded
            THEN IF ~IsKnownClass(encoded[name], classes_)
                 THEN [err |-> [HTTPException(400, "unknown_value") EXCEPT
                                   !.feature = name, !.value = encoded[name],
                                   !.valid = classes_],
                       payload |-> encoded]
                 ELSE EncodeFrom([encoded EXCEPT ![name] =
                                     Transform(encoded[name], classes_)],
                                 items, k + 1)
            ELSE EncodeFrom(encoded, items, k + 1)

\* apply_categorical_encoding(payload, encoders): the encoded payload, or the
\* HTTPException raised (err.status # 0).
apply_categorical_encoding(payload, enc) ==
    IF enc.gen = 0 \/ enc.items = <<>> THEN [err |-> NoError, payload |-> payload]
    ELSE IF ~IsMapping(payload)
    THEN [err |-> RawException("AttributeError"), payload |-> payload]
    ELSE EncodeFrom(payload, enc.items, 1)

\* Mutant: the scan of feature_names starts at its second entry.
MissingFeatures_SkipFirst(feature_names, payload) ==
    Filter(Tail(feature_names), SeqToSet(feature_names) \ DOMAIN payload)

\* Mutant: only the first missing feature is reported.
MissingFeatures_FirstOnly(feature_names, payload) ==
    LET missing == Filter(feature_names, SeqToSet(feature_names) \ DOMAIN payload)
    IN IF missing = <<>> THEN <<>> ELSE <<missing[1]>>

\* [f for f in feature_names if f not in payload]
MissingFeatures(feature_names, payload) ==
    Filter(feature_names, SeqToSet(feature_names) \ DOMAIN payload)

\* The cell pandas gives a column that a row has no value for.
NaN == [t |-> "nan", s |-> "", i |-> 0]

\* One row of pd.DataFrame(samples)[feature_names]: the values in the order of
\* feature_names.
Row(feature_names, payload) ==
    [k \in 1..Len(feature_names) |->
        IF feature_names[k] \in DOMAIN payload THEN payload[feature_names[k]]
        ELSE NaN]

\* Lines 196-204 / 298-299: whether every feature name is a column of the
\* DataFrame built from the samples (a key of at least one of them).
ColumnsPresent(feature_names, samples) ==
    \A k \in 1..Len(feature_names) :
        \E i \in 1..Len(samples) : feature_names[k] \in DOMAIN samples[i]


(***************************************************************************)
(* make_predictions and format_prediction_response.  Floating-point values *)
(* are counted in tenths (p = 0.8 is 8); integer values are themselves.    *)
(***************************************************************************)
Integer(v) == [dtype |-> "int", v |-> v]

\* The dtypes a raw output array may have.
Dtypes == {"float64", "float32", "float16", "int64"}

FloatingDtypes == {"float64", "float32", "float16"}

\* Mutant: every dtype is taken for a probability dtype.
ProbabilityDtypes_All == Dtypes

\* Line 80: `pred_data.dtype in [np.float32, np.float64]`.
ProbabilityDtypes == {"float32", "float64"}

RawValues == {2, 8}

\* A raw output array: its dtype, its number of dimensions and its values
\* row by row.  A row of a three-dimensional array of shape (n, c, m) holds
\* its c * m values in storage order, and inner is m (1 for the others).
\*
\* What the opaque pipeline of a request may return for n rows: a float64
\* vector with one value of RawValues per row, a two-column float64 matrix,
\* a vector of int64 labels, or a three-dimensional array of shape (n, 2, 1).
PipelineOutputs(n) ==
    {[dtype |-> "float64", ndim |-> 1, inner |-> 1,
      rows |-> [k \in 1..n |-> <<v[k]>>]] : v \in [1..n -> RawValues]}
    \cup {[dtype |-> "float64", ndim |-> 2, inner |-> 1,
           rows |-> [k \in 1..n |-> <<2, 8>>]],
          [dtype |-> "int64", ndim |-> 1, inner |-> 1,
           rows |-> [k \in 1..n |-> <<1>>]],
          [dtype |-> "float64", ndim |-> 3, inner |-> 1,
           rows |-> [k \in 1..n |-> <<2, 8>>]]}

\* The one output of a pipeline that returns 0.8 for every row.
FewOutputs(n) ==
    {[dtype |-> "float64", ndim |-> 1, inner |-> 1,
      rows |-> [k \in 1..n |-> <<8>>]]}

Max(S) == CHOOSE m \in S : \A x \in S : x <= m

\* Mutant: the last of equal maxima is taken.
ArgMax_Last(row) ==
    (CHOOSE k \in 1..Len(row) :
        /\ \A j \in 1..Len(row) : row[j] <= row[k]
        /\ \A j \in (k+1)..Len(row) : row[j] < row[k]) - 1

\* argmax of one row (0-based, the first of equal maxima).
ArgMax(row) ==
    (CHOOSE k \in 1..Len(row) :
        /\ \A j \in 1..Len(row) : row[j] <= row[k]
        /\ \A j \in 1..(k-1) : row[j] < row[k]) - 1

RECURSIVE Ravel(_)
Ravel(rows) == IF rows = <<>> THEN <<>> ELSE Head(rows) \o Ravel(Tail(rows))

\* pred_data.ravel() of a raw output.
Flatten(raw) == Ravel(raw.rows)

\* pred_data.shape[1] of a raw output of more than one dimension.
Shape1(raw) == Len(raw.rows[1]) \div raw.inner

\* astype(int) of a value counted in tenths: truncation towards zero.
Trunc(v) == IF v >= 0 THEN v \div 10 ELSE -((-v) \div 10)

NoPrediction == [raised |-> FALSE, predictions |-> <<>>,
                 has_probabilities |-> FALSE, probabilities |-> <<>>]

\* make_predictions re-raises what its body raised (lines 99-101).
RaisedPrediction == [NoPrediction EXCEPT !.raised = TRUE]

\* Line 83: (pred_data > 0.5).astype(int).
Threshold(p) == IF p > 5 THEN 1 ELSE 0

\* make_predictions(model, data, task_type) after model.predict returned raw:
\* (predictions_array, probabilities or None), or the exception of line 92,
\* where pd.DataFrame refuses a predictions_array that is not one-dimensional.
make_predictions(raw, task_type) ==
    IF task_type = "classification"
    THEN IF raw.ndim > 1 /\ Len(raw.rows) > 0 /\ Shape1(raw) > 1
         THEN IF raw.ndim > 2 THEN RaisedPrediction
              ELSE [raised |-> FALSE,
                    predictions |-> [k \in 1..Len(raw.rows) |->
                                        Integer(ArgMax(raw.rows[k]))],
                    has_probabilities |-> TRUE,
                    probabilities |-> raw.rows]
         ELSE LET flat == Flatten(raw) IN
              IF raw.dtype \in ProbabilityDtypes
                    /\ \A k \in 1..Len(flat) : flat[k] >= 0 /\ flat[k] <= 10
              THEN [raised |-> FALSE,
                    predictions |-> [k \in 1..Len(flat) |->
                                        Integer(Threshold(flat[k]))],
                    has_probabilities |-> TRUE,
                    probabilities |-> [k \in 1..Len(flat) |-> <<10 - flat[k], flat[k]>>]]
              ELSE [raised |-> FALSE,
                    predictions |-> [k \in 1..Len(flat) |->
                                        Integer(IF raw.dtype \in FloatingDtypes
                                                THEN Trunc(flat[k]) ELSE flat[k])],
                    has_probabilities |-> FALSE,
                    probabilities |-> <<>>]
    ELSE LET flat == Flatten(raw) IN
         [raised |-> FALSE,
          predictions |-> [k \in 1..Len(flat) |->
                              [dtype |-> raw.dtype, v |-> flat[k]]],
          has_probabilities |-> FALSE,
          probabilities |-> <<>>]

NoneValue == [dtype |-> "none", v |-> 0]

\* f"Cluster_{prediction_value}", or "Unknown".
NoLabel == [text |-> "", id |-> NoneValue]

NoResult == [keys |-> {}, prediction |-> NoneValue, task_type |-> "",
             probabilities |-> <<>>, confidence |-> 0,
             predicted_class |-> NoneValue, predicted_value |-> NoneValue,
             cluster_id |-> NoneValue, cluster |-> NoLabel,
             input_features |-> <<>>, sample_index |-> -1]

\* A key a JSON document does not have.
AbsentKey == "<absent>"

\* dict.get(key, default) on the value the document has under the key.
Get(value, default) == IF value = AbsentKey THEN default ELSE value

\* str.lower() on the task types met here.
Lower(s) ==
    CASE s = "Classification" -> "classification"
      [] s = "REGRESSION" -> "regression"
      [] OTHER -> s

\* Mutant: the confidence is the probability of the first class.
Confidence_First(prob_list) == prob_list[1]

\* Line 835: float(max(prob_list)).
Confidence(prob_list) == Max(SeqToSet(prob_list))

\* Mutant: the label is always built from the value.
ClusterLabel_Always(value) == [text |-> "Cluster_", id |-> value]

\* Line 849: the display label of a cluster.
ClusterLabel(value) ==
    IF value # NoneValue THEN [text |-> "Cluster_", id |-> value]
    ELSE [text |-> "Unknown", id |-> NoneValue]

\* format_prediction_response(prediction, feature_info, probabilities);
\* has tells whether probabilities is not None.
format_prediction_response(prediction, fi, has, probabilities) ==
    LET task == Lower(Get(fi.task_type, "unknown"))
        value == IF Len(prediction) > 0 THEN prediction[1] ELSE NoneValue
        base == [NoResult EXCEPT !.keys = {"prediction", "task_type"},
                                 !.prediction = value, !.task_type = task]
    IN CASE task = "classification" ->
              LET withProb ==
                    IF has /\ Len(probabilities) > 0
                    THEN [base EXCEPT !.keys = @ \cup {"probabilities", "confidence"},
                                      !.probabilities = probabilities,
                                      !.confidence = Confidence(probabilities)]
                    ELSE base
              IN IF fi.target_column # ""
                 THEN [withProb EXCEPT !.keys = @ \cup {"predicted_class"},
                                       !.predicted_class = value]
                 ELSE withProb
         [] task = "regression" ->
              [base EXCEPT !.keys = @ \cup {"predicted_value"},
                           !.predicted_value = value]
         [] task = "clustering" ->
              [base EXCEPT !.keys = @ \cup {"cluster_id", "cluster"},
                           !.cluster_id = value,
                           !.cluster = ClusterLabel(value)]
         [] OTHER -> base

(***************************************************************************)
(* startup_event                                                           *)
(***************************************************************************)
\* The position and the locals of startup_event.  `before` (the globals when
\* startup_event was entered), `outcome` (how the last run ended) and
\* `artifact` (the name of the pipeline file when the directory of the last
\* run held a deserializable pipeline, a valid feature_info.json and no
\* corrupt encoders.pkl) record history for the properties.
NoGens == [pipeline |-> 0, feature_info |-> 0, sample_input_for_docs |-> 0,
           encoders |-> 0]

IdleStartup == [pc |-> "idle", result |-> NoneResult, todo |-> <<>>,
                after |-> "idle", before |-> NoGens, outcome |-> "none",
                artifact |-> ""]

\* The identities of the objects the module globals hold.
Gens == [pipeline |-> pipeline, feature_info |-> feature_info.gen,
         sample_input_for_docs |-> sample_input_for_docs.gen,
         encoders |-> encoders.gen]

\* The raw output of a pipeline that has not been called.
NoRaw == [dtype |-> "float64", ndim |-> 1, inner |-> 1, rows |-> <<>>]

\* A request in flight: the handler's position and its local variables.
\*   sent     the samples as the client sent them (one for /predict)
\*   samples  the local `payload` / `samples`, rebound after encoding
\*   encoded  the local encoded_samples under construction
\*   events   what the handler has done so far, in order
\*   calls    the invocations of pipeline.predict
\*   raw      what the last invocation returned
\*   encGens  the encoders objects apply_categorical_encoding was given
\*   schema   the feature_info object feature_names was read from
\*   start    the module globals (their gens) when the request arrived
NoRequest == [kind |-> "none", pc |-> "idle", sent |-> <<>>, samples |-> <<>>,
              start |-> NoGens,
              encoded |-> <<>>, feature_names |-> <<>>, schema |-> 0,
              encGens |-> {}, task_type |-> "", rows |-> <<>>,
              raw |-> NoRaw,
              out |-> NoPrediction, events |-> <<>>, calls |-> <<>>,
              resp |-> NoError]

\* No function application under way, and no command line at work.
NoUtil == [pc |-> "none"]

NoDisk == [pc |-> "none"]

\* The application under way: the raw output, the feature_info, what
\* make_predictions returned (out), the way the handler passes it on (how:
\* the whole list as predict does, or sample i as predict_batch does), the
\* formatted result, and the result of POST /predict for sample i alone.
NoDecode == [pc |-> "none", raw |-> NoRaw, fi |-> NoneFeatureInfo,
             task_type |-> "", out |-> NoPrediction, how |-> "", i |-> 0,
             result |-> NoResult, alone |-> NoResult]

Init ==
    /\ pipeline = 0
    /\ feature_info = NoneFeatureInfo
    /\ PredictionPayload = 0
    /\ sample_input_for_docs = NoneSample
    /\ encoders = NoneEncoders
    /\ loads = 0
    /\ st = IdleStartup
    /\ crashed = FALSE
    /\ req = NoRequest
    /\ decode = NoDecode
    /\ util = NoUtil
    /\ disk = NoDisk

\* Mutant: the failure branches forget to reset `encoders`.
GlobalNames_NoEncoders == <<"pipeline", "feature_info", "PredictionPayload",
                            "sample_input_for_docs">>

\* The globals of lines 39-43 and 79-83, in the order they are assigned;
\* lines 49-52 assign the first four.
GlobalNames == <<"pipeline", "feature_info", "PredictionPayload",
                 "sample_input_for_docs", "encoders">>

\* Lines 27-28: the configuration is read outside the try block.
StartupConfig ==
    /\ ~crashed /\ st.pc = "idle" /\ loads < MaxLoads
    /\ \E cfg \in ConfigStates :
         IF get_config_output_dir(cfg) = "raise"
         THEN /\ crashed' = TRUE
              /\ UNCHANGED <<st, loads>>
         ELSE /\ st' = [st EXCEPT !.pc = "L32", !.before = Gens,
                                  !.outcome = "running", !.artifact = ""]
              /\ loads' = loads + 1
              /\ UNCHANGED crashed
    /\ UNCHANGED <<globals, req>>

\* Lines 32-46: load_model and the test of its result.
StartupLoad ==
    /\ ~crashed /\ st.pc = "L32"
    /\ \E held \in PipelineFileNames, file \in FileStates,
          infoFile \in FileStates, doc \in FeatureInfoDocs :
         LET r == load_model(FileAt(ModelFileName, held, file), infoFile, doc, loads)
             artifact == IF file = "ok" /\ infoFile = "ok" THEN held ELSE ""
         IN
         IF r.raised
         THEN st' = [st EXCEPT !.pc = "assign", !.result = NoneResult,
                               !.todo = GlobalNames, !.after = "idle",
                               !.outcome = "failed", !.artifact = artifact]
         ELSE IF r.pipeline = 0
         THEN st' = [st EXCEPT !.pc = "assign", !.result = NoneResult,
                               !.todo = GlobalNames, !.after = "idle",
                               !.outcome = "no_model", !.artifact = artifact]
         ELSE st' = [st EXCEPT !.pc = "assign", !.result = r,
                               !.todo = SubSeq(GlobalNames, 1, 4), !.after = "L55",
                               !.artifact = artifact]
    /\ UNCHANGED <<globals, loads, crashed, req>>

\* One assignment to a module global: lines 39-43, 49-52 and 79-83.
StartupAssign ==
    /\ ~crashed /\ st.pc = "assign" /\ st.todo # <<>>
    /\ LET g == Head(st.todo) IN
       /\ pipeline' = IF g = "pipeline" THEN st.result.pipeline ELSE pipeline
       /\ feature_info' = IF g = "feature_info" THEN st.result.feature_info
                          ELSE feature_info
       /\ PredictionPayload' = IF g = "PredictionPayload"
                               THEN st.result.PredictionPayload ELSE PredictionPayload
       /\ sample_input_for_docs' = IF g = "sample_input_for_docs"
                                   THEN st.result.sample_input_for_docs
                                   ELSE sample_input_for_docs
       /\ encoders' = IF g = "encoders" THEN NoneEncoders ELSE encoders
    /\ st' = IF Len(st.todo) = 1
             THEN [st EXCEPT !.pc = st.after, !.todo = <<>>, !.after = "idle",
                             !.result = IF st.after = "idle" THEN NoneResult
                                        ELSE st.result]
             ELSE [st EXCEPT !.todo = Tail(st.todo)]
    /\ UNCHANGED <<loads, crashed, req>>

\* Mutant: the example takes the last class of an encoder.
UpdateSample_LastClass(sample, items) ==
    [sample EXCEPT !.example =
        [k \in 1..Len(sample.example) |->
            LET e == sample.example[k]
                hits == {j \in 1..Len(items) :
                            items[j].name = e.name /\ Len(items[j].classes_) > 0}
            IN IF hits = {} THEN e
               ELSE LET classes_ == items[CHOOSE j \in hits : TRUE].classes_
                    IN [e EXCEPT !.value = Str(classes_[Len(classes_)])]]]

\* The first class of every encoder whose feature is in the example
\* (lines 61-66; the example dict is updated in place).
UpdateSample(sample, items) ==
    [sample EXCEPT !.example =
        [k \in 1..Len(sample.example) |->
            LET e == sample.example[k]
                hits == {j \in 1..Len(items) :
                            items[j].name = e.name /\ Len(items[j].classes_) > 0}
            IN IF hits = {} THEN e
               ELSE [e EXCEPT !.value =
                        Str(items[CHOOSE j \in hits : TRUE].classes_[1])]]]

\* Lines 55-69: the optional encoders file.
StartupEncoders ==
    /\ ~crashed /\ st.pc = "L55"
    /\ \E encFile \in FileStates, doc \in EncoderDocs :
         CASE encFile = "absent" ->
                /\ encoders' = NoneEncoders
                /\ st' = [IdleStartup EXCEPT !.before = st.before,
                                             !.outcome = "loaded",
                                             !.artifact = st.artifact]
                /\ UNCHANGED sample_input_for_docs
           [] encFile = "corrupt" ->
                /\ st' = [st EXCEPT !.pc = "assign", !.result = NoneResult,
                                    !.todo = GlobalNames, !.after = "idle",
                                    !.outcome = "failed", !.artifact = ""]
                /\ UNCHANGED <<encoders, sample_input_for_docs>>
           [] encFile = "ok" ->
                /\ encoders' = [gen |-> st.result.pipeline, items |-> doc]
                /\ st' = [st EXCEPT !.pc = "L61"]
                /\ UNCHANGED sample_input_for_docs
    /\ UNCHANGED <<pipeline, feature_info, PredictionPayload, loads, crashed, req>>

\* Lines 61-67: the example is overridden with categorical values.
StartupSample ==
    /\ ~crashed /\ st.pc = "L61"
    /\ sample_input_for_docs' =
         IF sample_input_for_docs.gen # 0
               /\ Len(sample_input_for_docs.example) > 0
               /\ feature_info.gen # 0
               /\ feature_info.has_categorical
         THEN UpdateSample(sample_input_for_docs, encoders.items)
         ELSE sample_input_for_docs
    /\ st' = [IdleStartup EXCEPT !.before = st.before, !.outcome = "loaded",
                                 !.artifact = st.artifact]
    /\ UNCHANGED <<pipeline, feature_info, PredictionPayload, encoders, loads,
                   crashed, req>>

(***************************************************************************)
(* Request handlers: POST /predict and POST /predict/batch                 *)
(***************************************************************************)
Event(e, i) == [e |-> e, i |-> i]

Raise(r, resp) == [r EXCEPT !.pc = "done", !.resp = resp]

Truthy(enc) == enc.gen # 0 /\ enc.items # <<>>

\* Lines 172-173 / 257-258: the not-loaded check.
NotLoaded == pipeline = 0 \/ feature_info.gen = 0

\* Lines 170-173: a request arrives at POST /predict with one of `payloads`.
PredictStart(payloads) ==
    /\ ~crashed /\ req.kind = "none"
    /\ \E payload \in payloads :
         LET r == [NoRequest EXCEPT !.kind = "predict", !.sent = <<payload>>,
                                    !.samples = <<payload>>, !.start = Gens]
         IN req' = IF NotLoaded
                   THEN Raise(r, HTTPException(503, "not_loaded"))
                   ELSE [r EXCEPT !.pc = "if_encoders",
                                  !.events = <<Event("loaded", 0)>>]
    /\ UNCHANGED <<globals, loads, st, crashed>>

\* Mutant: the shape of the body is checked before the model.
BatchCheck_ShapeFirst(body, notLoaded) ==
    IF body.form = "nokey" THEN HTTPException(400, "no_samples_key")
    ELSE IF body.form = "notlist" \/ Len(body.samples) = 0
    THEN HTTPException(400, "samples_not_a_list")
    ELSE IF notLoaded THEN HTTPException(503, "not_loaded")
    ELSE NoError

\* Lines 257-270: the checks predict_batch makes before it looks at the
\* samples; NoError when all pass.
BatchCheck(body, notLoaded) ==
    IF notLoaded THEN HTTPException(503, "not_loaded")
    ELSE IF body.form = "nokey" THEN HTTPException(400, "no_samples_key")
    ELSE IF body.form = "notlist" \/ Len(body.samples) = 0
    THEN HTTPException(400, "samples_not_a_list")
    ELSE NoError

\* Lines 254-270: a request arrives at POST /predict/batch with one of `bodies`.
BatchStart(bodies) ==
    /\ ~crashed /\ req.kind = "none"
    /\ \E body \in bodies :
         LET r == [NoRequest EXCEPT !.kind = "batch", !.sent = body.samples,
                                    !.samples = body.samples, !.start = Gens]
             e == BatchCheck(body, NotLoaded)
         IN req' = IF e.status # 0 THEN Raise(r, e)
                   ELSE [r EXCEPT !.pc = "if_encoders",
                                  !.events = <<Event("loaded", 0)>>]
    /\ UNCHANGED <<globals, loads, st, crashed>>

\* Mutant: the encoding block is not entered before validation.
IfEncoders_Skip(kind) ==
    /\ req.kind = kind /\ req.pc = "if_encoders"
    /\ req' = [req EXCEPT !.pc = "validate"]
    /\ UNCHANGED <<globals, loads, st, crashed>>

\* Lines 177 / 273: `if encoders:`.
IfEncoders(kind) ==
    /\ req.kind = kind /\ req.pc = "if_encoders"
    /\ req' = IF Truthy(encoders)
              THEN [req EXCEPT !.pc = "encode", !.encoded = <<>>]
              ELSE [req EXCEPT !.pc = "validate"]
    /\ UNCHANGED <<globals, loads, st, crashed>>

\* Lines 179 / 277-279: apply_categorical_encoding on the next sample, with
\* the encoders global as it is now.
Encode(kind) ==
    /\ req.kind = kind /\ req.pc = "encode"
    /\ LET i == Len(req.encoded) + 1
           e == apply_categorical_encoding(req.samples[i], encoders)
           r == [req EXCEPT !.events = Append(@, Event("encode", i - 1)),
                            !.encGens = @ \cup ({encoders.gen} \ {0})]
       IN req' = IF e.err # NoError
                 THEN Raise(r, EncodingExcept(e.err))
                 ELSE IF i = Len(req.samples)
                 THEN [r EXCEPT !.pc = "validate",
                                !.samples = Append(req.encoded, e.payload),
                                !.encoded = Append(req.encoded, e.payload)]
                 ELSE [r EXCEPT !.encoded = Append(req.encoded, e.payload)]
    /\ UNCHANGED <<globals, loads, st, crashed>>

\* Mutant: the validation loop looks at the first sample only.
FirstInvalid_FirstSampleOnly(feature_names, samples) ==
    IF Len(samples) > 0 /\ MissingFeatures(feature_names, samples[1]) # <<>>
    THEN 1 ELSE 0

\* The first sample (1-based) lacking a feature, 0 when there is none.
FirstInvalid(feature_names, samples) ==
    LET bad == {i \in 1..Len(samples) :
                    MissingFeatures(feature_names, samples[i]) # <<>>}
    IN IF bad = {} THEN 0 ELSE CHOOSE i \in bad : \A j \in bad : i <= j

\* Lines 188-214 / 287-309: feature_names is read from feature_info, every
\* sample is checked for missing features (`f not in sample` raises a
\* TypeError on a sample that is a number), the DataFrame is built.  (The
\* pd.to_numeric pass of lines 207-211 leaves the values sent here as they
\* are: none of them is a string that reads as a number.)
Validate(kind) ==
    /\ req.kind = kind /\ req.pc = "validate"
    /\ LET names == feature_info.feature_names
           bad == FirstInvalid(names, req.samples)
           checked == IF bad = 0 THEN Len(req.samples) ELSE bad
           r == [req EXCEPT !.events = @ \o [i \in 1..checked |-> Event("validate", i - 1)],
                            !.feature_names = names,
                            !.schema = feature_info.gen]
       IN req' = IF feature_info.gen = 0
                 THEN Raise(req, OuterExcept(RawException("AttributeError")))
                 ELSE IF bad # 0 /\ ~IsMapping(req.samples[bad])
                 THEN Raise(r, OuterExcept(RawException("TypeError")))
                 ELSE IF bad # 0
                 THEN Raise(r, [HTTPException(400, "missing") EXCEPT
                                   !.missing = MissingFeatures(names, req.samples[bad]),
                                   !.index = IF kind = "batch" THEN bad - 1 ELSE -1])
                 ELSE IF ~ColumnsPresent(names, req.samples)
                 THEN Raise(r, HTTPException(400, "dataframe_error"))
                 ELSE [r EXCEPT !.pc = "task",
                                !.rows = [i \in 1..Len(req.samples) |->
                                             Row(names, req.samples[i])]]
    /\ UNCHANGED <<globals, loads, st, crashed>>

\* Mutant: a failure of the prediction step is answered as a client error.
PredictionFailed_AsClientError == HTTPException(400, "prediction_error")

\* Lines 225-227 / 319-321: `except Exception` around the prediction step.
PredictionFailed == HTTPException(500, "prediction_failed")

\* Lines 218 / 313: task_type is read from feature_info.
Task(kind) ==
    /\ req.kind = kind /\ req.pc = "task"
    /\ req' = IF feature_info.gen = 0
              THEN Raise(req, PredictionFailed)
              ELSE [req EXCEPT !.pc = "call",
                               !.task_type = Lower(Get(feature_info.task_type,
                                                       "classification"))]
    /\ UNCHANGED <<globals, loads, st, crashed>>

\* Mutant: the pipeline is invoked once for every row.
Call_PerSample(kind, outputs) ==
    /\ req.kind = kind /\ req.pc = "call"
    /\ IF pipeline = 0
       THEN req' = Raise(req, PredictionFailed)
       ELSE LET r == [req EXCEPT
                        !.events = @ \o [i \in 1..Len(req.rows) |->
                                            Event("predict", i - 1)],
                        !.calls = @ \o [i \in 1..Len(req.rows) |->
                                           [pipeline |-> pipeline,
                                            rows |-> <<req.rows[i]>>]]]
            IN \/ req' = Raise([r EXCEPT !.events = Append(@, Event("raised", 0))],
                               PredictionFailed)
               \/ \E raw \in outputs :
                    LET out == make_predictions(raw, req.task_type)
                        rr == [r EXCEPT !.raw = raw,
                                        !.events = Append(@, Event("returned", 0))]
                    IN req' = IF out.raised THEN Raise(rr, PredictionFailed)
                              ELSE [rr EXCEPT !.pc = "format", !.out = out]
    /\ UNCHANGED <<globals, loads, st, crashed>>

\* Lines 219-227 / 314-321: make_predictions(pipeline, input_df, task_type);
\* the pipeline either raises or returns one of `outputs`, which
\* make_predictions decodes or fails to decode.
Call(kind, outputs) ==
    /\ req.kind = kind /\ req.pc = "call"
    /\ IF pipeline = 0
       THEN req' = Raise(req, PredictionFailed)
       ELSE LET r == [req EXCEPT
                        !.events = Append(@, Event("predict", 0)),
                        !.calls = Append(@, [pipeline |-> pipeline,
                                             rows |-> req.rows])]
            IN \/ req' = Raise([r EXCEPT !.events = Append(@, Event("raised", 0))],
                               PredictionFailed)
               \/ \E raw \in outputs :
                    LET out == make_predictions(raw, req.task_type)
                        rr == [r EXCEPT !.raw = raw,
                                        !.events = Append(@, Event("returned", 0))]
                    IN req' = IF out.raised THEN Raise(rr, PredictionFailed)
                              ELSE [rr EXCEPT !.pc = "format", !.out = out]
    /\ UNCHANGED <<globals, loads, st, crashed>>

\* probabilities[i] if probabilities is not None else None
ProbabilitiesOf(out, i) ==
    IF out.has_probabilities THEN out.probabilities[i] ELSE <<>>

\* Lines 230-236 / 324-336: the response is formatted with feature_info.
Format(kind) ==
    /\ req.kind = kind /\ req.pc = "format"
    /\ LET n == IF kind = "batch"
                THEN IF Len(req.samples) <= Len(req.out.predictions)
                     THEN Len(req.samples) ELSE Len(req.out.predictions)
                ELSE 1
           results ==
             [i \in 1..n |->
                [format_prediction_response(
                     IF kind = "batch" THEN <<req.out.predictions[i]>>
                     ELSE req.out.predictions,
                     feature_info, req.out.has_probabilities,
                     ProbabilitiesOf(req.out, i))
                 EXCEPT !.keys = @ \cup {"input_features"}
                                   \cup (IF kind = "batch" THEN {"sample_index"} ELSE {}),
                        !.input_features = req.samples[i],
                        !.sample_index = IF kind = "batch" THEN i - 1 ELSE -1]]
       IN req' = IF feature_info.gen = 0
                 THEN Raise(req, OuterExcept(RawException("AttributeError")))
                 ELSE Raise(req, [HTTPException(200, "ok") EXCEPT
                                     !.results = results,
                                     !.total_samples = Len(req.samples),
                                     !.task_type = IF kind = "batch"
                                                   THEN req.task_type ELSE ""])
    /\ UNCHANGED <<globals, loads, st, crashed>>

\* Lines 124-134: GET /.
root ==
    /\ ~crashed /\ req.kind = "none"
    /\ req' = Raise([NoRequest EXCEPT !.kind = "root", !.start = Gens],
                    HTTPException(200, IF pipeline # 0 THEN "operational"
                                       ELSE "model_not_loaded"))
    /\ UNCHANGED <<globals, loads, st, crashed>>

\* Lines 137-139: GET /health.
health_check ==
    /\ ~crashed /\ req.kind = "none"
    /\ req' = Raise([NoRequest EXCEPT !.kind = "health", !.start = Gens],
                    [HTTPException(200, "healthy") EXCEPT
                        !.model_loaded = (pipeline # 0)])
    /\ UNCHANGED <<globals, loads, st, crashed>>

\* Lines 142-160: GET /model-info.
get_model_info ==
    /\ ~crashed /\ req.kind = "none"
    /\ req' = Raise([NoRequest EXCEPT !.kind = "model_info", !.start = Gens],
                    IF NotLoaded THEN HTTPException(503, "not_loaded")
                    ELSE [HTTPException(200, "ok") EXCEPT
                             !.task_type = feature_info.task_type,
                             !.total_samples = Len(feature_info.feature_names),
                             !.info = feature_info.feature_names])
    /\ UNCHANGED <<globals, loads, st, crashed>>

\* The example as a payload: the JSON object GET /predict/example returns.
ExamplePayload(example) ==
    [f \in {example[k].name : k \in 1..Len(example)} |->
        example[CHOOSE k \in 1..Len(example) : example[k].name = f].value]

\* What a client that has fetched the example can post.
ExamplePayloads ==
    IF sample_input_for_docs.gen # 0
    THEN {ExamplePayload(sample_input_for_docs.example)} ELSE {}

\* Lines 163-167: GET /predict/example.
get_prediction_example ==
    /\ ~crashed /\ req.kind = "none"
    /\ req' = Raise([NoRequest EXCEPT !.kind = "example", !.start = Gens],
                    IF sample_input_for_docs.gen = 0
                    THEN HTTPException(503, "not_loaded")
                    ELSE [HTTPException(200, "ok") EXCEPT
                             !.info = sample_input_for_docs.example])
    /\ UNCHANGED <<globals, loads, st, crashed>>

\* Lines 245-251: GET /predict/batch.
get_batch_prediction_example ==
    /\ ~crashed /\ req.kind = "none"
    /\ req' = Raise([NoRequest EXCEPT !.kind = "batch_example", !.start = Gens],
                    IF sample_input_for_docs.gen = 0
                    THEN HTTPException(503, "not_loaded")
                    ELSE [HTTPException(200, "ok") EXCEPT
                             !.info = sample_input_for_docs.example,
                             !.total_samples = 2])
    /\ UNCHANGED <<globals, loads, st, crashed>>

\* The response is sent; the worker is free for the next request.
Respond ==
    /\ req.pc = "done"
    /\ req' = NoRequest
    /\ UNCHANGED <<globals, loads, st, crashed>>

predict(payloads, outputs) ==
    \/ PredictStart(payloads)
    \/ IfEncoders("predict")
    \/ Encode("predict")
    \/ Validate("predict")
    \/ Task("predict")
    \/ Call("predict", outputs)
    \/ Format("predict")

predict_batch(bodies, outputs) ==
    \/ BatchStart(bodies)
    \/ IfEncoders("batch")
    \/ Encode("batch")
    \/ Validate("batch")
    \/ Task("batch")
    \/ Call("batch", outputs)
    \/ Format("batch")

startup_event ==
    \/ StartupConfig
    \/ StartupLoad
    \/ StartupAssign
    \/ StartupEncoders
    \/ StartupSample

(***************************************************************************)
(* Spec: the process as a whole.  startup_event runs on the lifespan       *)
(* thread and may run again while the process lives; the handlers run on   *)
(* worker threads, so the steps of a load and of a request interleave.     *)
(***************************************************************************)
Next ==
    \/ startup_event /\ UNCHANGED offline
    \/ predict(FewPayloads, FewOutputs(Len(req.rows))) /\ UNCHANGED offline
    \/ predict_batch(FewBodies, FewOutputs(Len(req.rows))) /\ UNCHANGED offline
    \/ root /\ UNCHANGED offline
    \/ health_check /\ UNCHANGED offline
    \/ get_model_info /\ UNCHANGED offline
    \/ get_prediction_example /\ UNCHANGED offline
    \/ get_batch_prediction_example /\ UNCHANGED offline
    \/ Respond /\ UNCHANGED offline

Spec == Init /\ [][Next]_vars

(***************************************************************************)
(* SpecServe: the server as uvicorn runs it.  The lifespan startup has     *)
(* finished before a request is accepted, and no load starts while a       *)
(* request is in flight; the requests range over all payloads and the      *)
(* example the server hands out.                                           *)
(***************************************************************************)
Quiescent == req.kind = "none"

Serving == st.pc = "idle"

NextServe ==
    \/ Quiescent /\ startup_event /\ UNCHANGED offline
    \/ Serving /\ predict(Payloads \cup ExamplePayloads,
                          PipelineOutputs(Len(req.rows))) /\ UNCHANGED offline
    \/ Serving /\ predict_batch(BatchBodies,
                                PipelineOutputs(Len(req.rows))) /\ UNCHANGED offline
    \/ Serving /\ root /\ UNCHANGED offline
    \/ Serving /\ health_check /\ UNCHANGED offline
    \/ Serving /\ get_model_info /\ UNCHANGED offline
    \/ Serving /\ get_prediction_example /\ UNCHANGED offline
    \/ Serving /\ get_batch_prediction_example /\ UNCHANGED offline
    \/ Respond /\ UNCHANGED offline

SpecServe == Init /\ [][NextServe]_vars

(***************************************************************************)
(* SpecAnyBody: the server of SpecServe, with batches whose samples may be *)
(* something else than JSON objects.                                       *)
(***************************************************************************)
AnyBodies ==
    BatchBodies
    \cup {[form |-> "list", samples |-> ss] :
            ss \in UNION {[1..n -> BatchSamples \cup {NumberSample}] :
                             n \in 1..MaxBatch}}

NextAnyBody ==
    \/ Quiescent /\ startup_event /\ UNCHANGED offline
    \/ Serving /\ predict(Payloads, PipelineOutputs(Len(req.rows)))
               /\ UNCHANGED offline
    \/ Serving /\ predict_batch(AnyBodies, PipelineOutputs(Len(req.rows)))
               /\ UNCHANGED offline
    \/ Respond /\ UNCHANGED offline

SpecAnyBody == Init /\ [][NextAnyBody]_vars

(***************************************************************************)
(* make_predictions and format_prediction_response as functions: the raw   *)
(* outputs and the feature_info documents they are applied to.             *)
(***************************************************************************)
FloatValues == {-3, 0, 5, 8, 10, 13}

IntValues == {0, 1, 3}

MatrixValues == {5, 8}

SeqsOf(V, lo, hi) == UNION {[1..n -> V] : n \in lo..hi}

\* A one-dimensional array and a two-dimensional one; the three-dimensional
\* ones have the shapes (1, 2, 1) and (1, 1, 2).
Vector(dtype, v) ==
    [dtype |-> dtype, ndim |-> 1, inner |-> 1,
     rows |-> [k \in 1..Len(v) |-> <<v[k]>>]]

Matrix(dtype, m) == [dtype |-> dtype, ndim |-> 2, inner |-> 1, rows |-> m]

RawOutputs ==
    {Vector(d, v) : d \in FloatingDtypes, v \in SeqsOf(FloatValues, 0, MaxRows)}
    \cup {Vector("int64", v) : v \in SeqsOf(IntValues, 0, MaxRows)}
    \cup UNION {{Matrix("float64", m) :
                    m \in SeqsOf([1..c -> MatrixValues], 1, MaxRows)} :
                c \in 1..MaxCols}
    \cup {[dtype |-> "float64", ndim |-> 3, inner |-> m, rows |-> << <<2, 8>> >>] :
             m \in {1, 2}}

\* The task_type a feature_info.json may hold.
TaskTypeDocs == {"classification", "Classification", "regression",
                 "clustering", AbsentKey}

DecodeSchemas ==
    {[gen |-> 1, feature_names |-> <<"a">>, task_type |-> t,
      target_column |-> c, has_categorical |-> FALSE] :
        t \in TaskTypeDocs, c \in {"", "y"}}

InitDecode ==
    /\ pipeline = 0
    /\ feature_info = NoneFeatureInfo
    /\ PredictionPayload = 0
    /\ sample_input_for_docs = NoneSample
    /\ encoders = NoneEncoders
    /\ loads = 0
    /\ st = IdleStartup
    /\ crashed = FALSE
    /\ req = NoRequest
    /\ decode \in {[NoDecode EXCEPT !.pc = "raw", !.raw = raw, !.fi = fi] :
                      raw \in RawOutputs, fi \in DecodeSchemas}
    /\ util = NoUtil
    /\ disk = NoDisk

\* Lines 218-219 / 313-314: make_predictions with the task type the handlers
\* read from feature_info.
Decode ==
    /\ decode.pc = "raw"
    /\ LET task == Lower(Get(decode.fi.task_type, "classification"))
           out == make_predictions(decode.raw, task)
       IN decode' = [decode EXCEPT !.pc = IF out.raised THEN "failed" ELSE "decoded",
                                   !.task_type = task, !.out = out]
    /\ UNCHANGED <<server, util, disk>>

\* Lines 222-230 / 325-327: format_prediction_response on what
\* make_predictions returned.
FormatResponse ==
    /\ decode.pc = "decoded"
    /\ \/ /\ decode.out.has_probabilities => Len(decode.out.probabilities) > 0
          /\ decode' = [decode EXCEPT
                 !.pc = "formatted", !.how = "predict", !.i = 1,
                 !.result = format_prediction_response(
                                decode.out.predictions, decode.fi,
                                decode.out.has_probabilities,
                                ProbabilitiesOf(decode.out, 1))]
       \/ \E i \in 1..Len(decode.out.predictions) :
             decode' = [decode EXCEPT
                 !.pc = "formatted", !.how = "batch", !.i = i,
                 !.result = format_prediction_response(
                                <<decode.out.predictions[i]>>, decode.fi,
                                decode.out.has_probabilities,
                                ProbabilitiesOf(decode.out, i))]
    /\ UNCHANGED <<server, util, disk>>

\* What a pipeline that predicts every row by itself returns for row i
\* alone: row i of what it returns for the batch.
RowAlone(raw, i) == [raw EXCEPT !.rows = <<raw.rows[i]>>]

\* Lines 216-230: POST /predict for sample i of the batch, posted alone to
\* the same bundle.
PredictAlone ==
    /\ decode.pc = "formatted" /\ decode.how = "batch"
    /\ decode.i <= Len(decode.raw.rows)
    /\ LET out == make_predictions(RowAlone(decode.raw, decode.i),
                                   decode.task_type)
       IN decode' = [decode EXCEPT
              !.pc = "both",
              !.alone = IF out.raised THEN NoResult
                        ELSE format_prediction_response(
                                 out.predictions, decode.fi,
                                 out.has_probabilities,
                                 ProbabilitiesOf(out, 1))]
    /\ UNCHANGED <<server, util, disk>>

NextDecode ==
    \/ Decode
    \/ FormatResponse
    \/ PredictAlone

SpecDecode == InitDecode /\ [][NextDecode]_vars

(***************************************************************************)
(* load_model, lines 487-514: the field rules of the payload model.  The   *)
(* characters of a type hint matter, so a hint is a sequence of them.      *)
(***************************************************************************)
\* str.lower() on the characters met in the hints.
LowerChar(c) ==
    CASE c = "I" -> "i" [] c = "N" -> "n" [] c = "T" -> "t"
      [] c = "F" -> "f" [] c = "L" -> "l" [] c = "O" -> "o"
      [] c = "A" -> "a" [] c = "U" -> "u" [] c = "M" -> "m"
      [] c = "B" -> "b" [] c = "E" -> "e" [] c = "R" -> "r"
      [] OTHER -> c

StrLower(s) == [k \in 1..Len(s) |-> LowerChar(s[k])]

\* `sub in s` for two strings.
Contains(s, sub) ==
    \E k \in 0..(Len(s) - Len(sub)) : SubSeq(s, k + 1, k + Len(sub)) = sub

\* The values feature_types may hold for a feature: the dtype names training
\* writes (train.py line 211), the hints of the documentation in several
\* spellings, the empty string; JSON null; no entry at all.
HintTexts ==
    { <<"i","n","t">>, <<"i","n","t","6","4">>, <<"I","n","t","3","2">>,
      <<"u","i","n","t","8">>, <<"I","N","T","E","G","E","R">>,
      <<"f","l","o","a","t">>, <<"f","l","o","a","t","6","4">>,
      <<"F","l","o","a","t","3","2">>, <<"n","u","m","b","e","r">>,
      <<"N","U","M","B","E","R">>,
      <<"s","t","r","i","n","g">>, <<"o","b","j","e","c","t">>,
      <<"c","a","t","e","g","o","r","y">>, <<"b","o","o","l">>,
      <<"i","n","t","e","r","v","a","l","[","f","l","o","a","t","6","4","]">>,
      <<>> }

StrHint(text) == [kind |-> "str", text |-> text]

NullHint == [kind |-> "null", text |-> <<>>]

NoHint == [kind |-> "absent", text |-> <<>>]

TypeHints == {StrHint(t) : t \in HintTexts} \cup {NullHint, NoHint}

\* Lines 493-514: the primitive kind of the field built for one feature,
\* from feature_types.get(feature).
FieldKind(feature_type) ==
    IF feature_type.kind = "str" /\ feature_type.text # <<>>
    THEN LET ft == StrLower(feature_type.text)
         IN IF Contains(ft, <<"i","n","t">>) THEN "int"
            ELSE IF Contains(ft, <<"f","l","o","a","t">>)
                    \/ Contains(ft, <<"n","u","m","b","e","r">>)
                 THEN "float"
                 ELSE "str"
    ELSE "float"

\* Lines 487-514: `fields`, one required field per feature name, in order.
Fields(feature_names, feature_types) ==
    [k \in 1..Len(feature_names) |->
        [name |-> feature_names[k],
         kind |-> FieldKind(feature_types[feature_names[k]])]]

\* The feature_info.json documents whose field rules are built.
FieldInputs ==
    {[pc |-> "types", feature_names |-> <<"a", "b">>, feature_types |-> ft,
      fields |-> <<>>] : ft \in [{"a", "b"} -> TypeHints]}

BuildFields ==
    /\ util.pc = "types"
    /\ util' = [util EXCEPT !.pc = "fields",
                            !.fields = Fields(util.feature_names,
                                              util.feature_types)]
    /\ UNCHANGED <<server, decode, disk>>

(***************************************************************************)
(* generate_realistic_example_from_stats on documents with statistics.     *)
(***************************************************************************)
\* The statistics met, in thousandths: -1.236, 0.25, 1.0, 3.142.
StatValues == {-1236, 250, 1000, 3142}

OptStats == {NoStat} \cup {Stat(m) : m \in StatValues}

NoEntry == [kind |-> "absent", mean |-> NoStat, median |-> NoStat,
            min |-> NoStat, max |-> NoStat]

\* An entry that is not a dict (a number, a list, null).
OtherEntry == [NoEntry EXCEPT !.kind = "other"]

DictEntries == [kind : {"dict"}, mean : OptStats, median : OptStats,
                min : OptStats, max : OptStats]

\* The entries of the second feature: none, and one with a median only.
FewEntries == {NoEntry, [NoEntry EXCEPT !.kind = "dict", !.median = Stat(250)]}

\* feature_info.json documents with feature_statistics, and one without.
StatsDocs ==
    {[feature_names |-> <<"b", "a">>,
      feature_statistics |-> [f \in {"a", "b"} |-> IF f = "a" THEN ea ELSE eb]] :
        ea \in DictEntries \cup {NoEntry, OtherEntry}, eb \in FewEntries}

ExampleInputs ==
    {[pc |-> "stats", has_statistics |-> TRUE, doc |-> d, example |-> <<>>] :
        d \in StatsDocs}
    \cup {[pc |-> "stats", has_statistics |-> FALSE,
           doc |-> [feature_names |-> <<"b", "a">>,
                    feature_statistics |-> [f \in {"a", "b"} |-> NoEntry]],
           example |-> <<>>]}

\* Line 481: sample_input_for_docs = generate_realistic_example_from_stats(
\* feature_info).
BuildExample ==
    /\ util.pc = "stats"
    /\ util' = [util EXCEPT
           !.pc = "example",
           !.example = generate_realistic_example_from_stats(
                           IF util.has_statistics THEN util.doc
                           ELSE [feature_names |-> util.doc.feature_names])]
    /\ UNCHANGED <<server, decode, disk>>

(***************************************************************************)
(* convert_numpy_types.  An object is a record: its type (tag), its value  *)
(* when it is a scalar (val), its items when it is a list, a tuple, an     *)
(* array or a dict (the values), and its keys when it is a dict.           *)
(***************************************************************************)
\* The nesting depth of the objects converted.
MaxDepth == 2

Scalar(tag, val) == [tag |-> tag, val |-> val, keys |-> <<>>, items |-> <<>>]

Container(tag, keys, items) ==
    [tag |-> tag, val |-> 0, keys |-> keys, items |-> items]

\* The NumPy scalar types and the Python type each converts to.
NumpyIntegers == {"np.int64", "np.int32"}

NumpyFloatings == {"np.float64", "np.float32"}

NumpyScalars == NumpyIntegers \cup NumpyFloatings \cup {"np.bool_"}

\* int(obj), float(obj), bool(obj), and ndarray.item() inside tolist().
ToPython(obj) ==
    IF obj.tag \in NumpyIntegers THEN Scalar("int", obj.val)
    ELSE IF obj.tag \in NumpyFloatings THEN Scalar("float", obj.val)
    ELSE IF obj.tag = "np.bool_" THEN Scalar("bool", obj.val)
    ELSE obj

\* ndarray.tolist() on an array of numbers (one- or two-dimensional).
RECURSIVE ToList(_)
ToList(arr) ==
    Container("list", <<>>,
              [k \in 1..Len(arr.items) |->
                  IF arr.items[k].tag = "ndarray" THEN ToList(arr.items[k])
                  ELSE ToPython(arr.items[k])])

\* Lines 787-802.
RECURSIVE convert_numpy_types(_)
convert_numpy_types(obj) ==
    IF obj.tag \in NumpyIntegers THEN ToPython(obj)
    ELSE IF obj.tag \in NumpyFloatings THEN ToPython(obj)
    ELSE IF obj.tag = "np.bool_" THEN ToPython(obj)
    ELSE IF obj.tag = "ndarray" THEN ToList(obj)
    ELSE IF obj.tag \in {"list", "tuple"}
         THEN Container("list", <<>>,
                  [k \in 1..Len(obj.items) |-> convert_numpy_types(obj.items[k])])
    ELSE IF obj.tag = "dict"
         THEN Container("dict", obj.keys,
                  [k \in 1..Len(obj.items) |-> convert_numpy_types(obj.items[k])])
    ELSE obj

\* The leaves: NumPy scalars, Python scalars, arrays of numbers.
Leaves ==
    {Scalar("np.int64", 1), Scalar("np.float32", 2), Scalar("np.bool_", 1),
     Scalar("int", 3), Scalar("str", 0),
     Container("ndarray", <<>>, <<Scalar("np.int64", 1), Scalar("np.int64", 2)>>),
     Container("ndarray", <<>>,
               << Container("ndarray", <<>>, <<Scalar("np.float64", 5)>>) >>)}

\* The keys of the dicts.
DictKeys == {Scalar("str", 0), Scalar("int", 3), Scalar("np.int64", 1)}

\* The objects nested at most d deep.
RECURSIVE Nested(_)
Nested(d) ==
    IF d = 0 THEN Leaves
    ELSE LET inner == Nested(d - 1)
         IN Leaves
            \cup {Container(t, <<>>, <<x>>) : t \in {"list", "tuple"}, x \in inner}
            \cup {Container("dict", <<key>>, <<x>>) : key \in DictKeys, x \in inner}
            \cup {Container("list", <<>>, <<Scalar("np.int64", 1), x>>) :
                     x \in Leaves}

ConvertInputs ==
    {[pc |-> "object", obj |-> x, converted |-> Scalar("NoneType", 0)] :
        x \in Nested(MaxDepth)}

Convert ==
    /\ util.pc = "object"
    /\ util' = [util EXCEPT !.pc = "converted",
                            !.converted = convert_numpy_types(util.obj)]
    /\ UNCHANGED <<server, decode, disk>>

(***************************************************************************)
(* apply_categorical_encoding as a function of a payload and an Encoder    *)
(* Set.                                                                    *)
(***************************************************************************)
\* The `encoders` it may be given: None, an empty dict, the loaded sets.
EncoderArgs ==
    {NoneEncoders} \cup {[gen |-> 1, items |-> e] : e \in EncoderDocs}

EncodingInputs ==
    {[pc |-> "payload", payload |-> p, encoders |-> e,
      err |-> NoError, encoded |-> p] :
        p \in Payloads, e \in EncoderArgs}

\* Lines 179 / 279: apply_categorical_encoding(payload, encoders).
ApplyEncoding ==
    /\ util.pc = "payload"
    /\ LET r == apply_categorical_encoding(util.payload, util.encoders)
       IN util' = [util EXCEPT
              !.pc = IF r.err = NoError THEN "encoded" ELSE "refused",
              !.err = r.err, !.encoded = r.payload]
    /\ UNCHANGED <<server, decode, disk>>

(***************************************************************************)
(* The frame handed to the pipeline (main.py lines 188-204 / 287-299).     *)
(* A JSON object keeps the order of its keys, so a sample is a sequence of *)
(* key/value pairs here.                                                   *)
(***************************************************************************)
Pair(key, value) == [key |-> key, value |-> value]

FrameKeys == {"a", "color", "x"}

\* The value sent under a key (the encoded one for "color").
FrameValue(key) ==
    CASE key = "a" -> Num(1) [] key = "color" -> Num(0) [] OTHER -> Num(7)

\* The JSON objects over FrameKeys, in every order of their keys.
OrderedSamples ==
    UNION {{[k \in 1..n |-> Pair(order[k], FrameValue(order[k]))] :
               order \in {o \in [1..n -> FrameKeys] :
                             \A i, j \in 1..n : i # j => o[i] # o[j]}} :
           n \in 0..Cardinality(FrameKeys)}

\* The dict a sequence of pairs stands for.
AsDict(pairs) ==
    [key \in {pairs[k].key : k \in 1..Len(pairs)} |->
        pairs[CHOOSE k \in 1..Len(pairs) : pairs[k].key = key].value]

\* The columns of pd.DataFrame(samples): the keys in the order in which they
\* first appear.
RECURSIVE FirstSeen(_, _)
FirstSeen(columns, pairs) ==
    IF pairs = <<>> THEN columns
    ELSE IF Head(pairs).key \in SeqToSet(columns)
         THEN FirstSeen(columns, Tail(pairs))
         ELSE FirstSeen(Append(columns, Head(pairs).key), Tail(pairs))

RECURSIVE ColumnsOf(_, _)
ColumnsOf(columns, samples) ==
    IF samples = <<>> THEN columns
    ELSE ColumnsOf(FirstSeen(columns, Head(samples)), Tail(samples))

\* pd.DataFrame(samples): one row per sample, NaN where a sample lacks a key.
DataFrame(samples) ==
    LET columns == ColumnsOf(<<>>, samples)
    IN [columns |-> columns,
        rows |-> [i \in 1..Len(samples) |-> Row(columns, AsDict(samples[i]))]]

\* Mutant: the selection keeps the order of the columns of the frame.
Select_FrameOrder(df, feature_names) ==
    LET kept == Filter(df.columns, SeqToSet(feature_names))
    IN [columns |-> kept,
        rows |-> [i \in 1..Len(df.rows) |->
                     [k \in 1..Len(kept) |->
                         df.rows[i][IndexOf(df.columns, kept[k])]]]]

\* input_df[feature_names] (lines 204 / 299), for feature names that are all
\* columns of the frame.
Select(df, feature_names) ==
    [columns |-> feature_names,
     rows |-> [i \in 1..Len(df.rows) |->
                  [k \in 1..Len(feature_names) |->
                      df.rows[i][IndexOf(df.columns, feature_names[k])]]]]

NoFrame == [columns |-> <<>>, rows |-> <<>>]

\* The orders of feature_names the frames are built for.
FrameSchemas == {<<"a", "color">>, <<"color", "a">>}

FrameInputs ==
    {[pc |-> "samples", samples |-> ss, names |-> names, frame |-> NoFrame,
      refusal |-> ""] :
        ss \in SeqsOf(OrderedSamples, 1, MaxBatch), names \in FrameSchemas}

\* Lines 188-204 / 287-299: the missing-feature check of every sample, then
\* the frame and the selection of its columns.
BuildFrame ==
    /\ util.pc = "samples"
    /\ LET dicts == [i \in 1..Len(util.samples) |-> AsDict(util.samples[i])]
           df == DataFrame(util.samples)
       IN util' = IF FirstInvalid(util.names, dicts) # 0
                  THEN [util EXCEPT !.pc = "no_frame", !.refusal = "missing"]
                  ELSE IF ~(SeqToSet(util.names) \subseteq SeqToSet(df.columns))
                  THEN [util EXCEPT !.pc = "no_frame",
                                    !.refusal = "dataframe_error"]
                  ELSE [util EXCEPT !.pc = "frame",
                                    !.frame = Select(df, util.names)]
    /\ UNCHANGED <<server, decode, disk>>

(***************************************************************************)
(* SpecUtils: the functions of the serving layer that depend on their      *)
(* arguments only, each applied once to an argument.                       *)
(***************************************************************************)
InitUtils ==
    /\ pipeline = 0
    /\ feature_info = NoneFeatureInfo
    /\ PredictionPayload = 0
    /\ sample_input_for_docs = NoneSample
    /\ encoders = NoneEncoders
    /\ loads = 0
    /\ st = IdleStartup
    /\ crashed = FALSE
    /\ req = NoRequest
    /\ decode = NoDecode
    /\ disk = NoDisk
    /\ util \in FieldInputs \cup ExampleInputs \cup ConvertInputs
                 \cup EncodingInputs \cup FrameInputs

NextUtils ==
    \/ BuildFields
    \/ BuildExample
    \/ Convert
    \/ ApplyEncoding
    \/ BuildFrame

SpecUtils == InitUtils /\ [][NextUtils]_vars

(***************************************************************************)
(* SpecClean: the working directory of the command line.  The commands     *)
(* that make artifacts write files and record them with log_artifact, the  *)
(* user may delete files, and `ml clean` reads .artifacts.log.             *)
(***************************************************************************)
\* The lines .artifacts.log may come to hold.
MaxLog == 3

\* A path: its text without surrounding whitespace (base) and whether it
\* ends with a blank (pad).
Path(base, pad) == [base |-> base, pad |-> pad]

\* The paths of the files of the directory, and those given to log_artifact:
\* the files and the directory "output".
FilePaths == {Path("a.txt", FALSE), Path("b.txt", FALSE), Path("b.txt", TRUE)}

LoggedPaths == FilePaths \cup {Path("output", FALSE)}

\* clean.py line 27: line.strip().
Strip(line) == [line EXCEPT !.pad = FALSE]

NoLog == [exists |-> FALSE, lines |-> <<>>]

EmptyDirectory ==
    [pc |-> "shell", files |-> {}, log |-> NoLog, exit_code |-> 0,
     before |-> [files |-> {}, log |-> NoLog], deleted |-> <<>>,
     missing |-> <<>>]

\* What the commands run since the last clean leave behind.
Shell(d) == [d EXCEPT !.pc = "shell", !.exit_code = 0,
                      !.before = [files |-> {}, log |-> NoLog],
                      !.deleted = <<>>, !.missing = <<>>]

InitClean ==
    /\ pipeline = 0
    /\ feature_info = NoneFeatureInfo
    /\ PredictionPayload = 0
    /\ sample_input_for_docs = NoneSample
    /\ encoders = NoneEncoders
    /\ loads = 0
    /\ st = IdleStartup
    /\ crashed = FALSE
    /\ req = NoRequest
    /\ decode = NoDecode
    /\ util = NoUtil
    /\ disk = EmptyDirectory

\* A command, or the user, writes a file.
WriteFile ==
    /\ \E p \in FilePaths :
          /\ p \notin disk.files
          /\ disk' = [Shell(disk) EXCEPT !.files = @ \cup {p}]
    /\ UNCHANGED <<server, decode, util>>

\* The user deletes or moves a file.
RemoveFile ==
    /\ \E p \in disk.files : disk' = [Shell(disk) EXCEPT !.files = @ \ {p}]
    /\ UNCHANGED <<server, decode, util>>

\* utils.py lines 342-349: log_artifact(file_path) appends the path and a
\* line break to .artifacts.log, creating it.
log_artifact ==
    /\ Len(disk.log.lines) < MaxLog
    /\ \E file_path \in LoggedPaths :
          disk' = [Shell(disk) EXCEPT
                      !.log = [exists |-> TRUE,
                               lines |-> Append(disk.log.lines, file_path)]]
    /\ UNCHANGED <<server, decode, util>>

\* clean.py lines 25-36: the loop over the lines of the log; os.path.isfile
\* is false for a path that does not exist and for a directory.
RECURSIVE CleanLoop(_, _)
CleanLoop(d, lines) ==
    IF lines = <<>> THEN d
    ELSE LET artifact_path == Strip(Head(lines))
         IN IF artifact_path \in d.files
            THEN CleanLoop([d EXCEPT !.files = @ \ {artifact_path},
                                     !.deleted = Append(@, artifact_path)],
                           Tail(lines))
            ELSE CleanLoop([d EXCEPT !.missing = Append(@, artifact_path)],
                           Tail(lines))

\* clean.py lines 10-46: `ml clean`.
clean ==
    /\ disk.pc = "shell"
    /\ LET d == [Shell(disk) EXCEPT
                    !.pc = "cleaned",
                    !.before = [files |-> disk.files, log |-> disk.log]]
       IN disk' = IF ~disk.log.exists THEN d
                  ELSE [CleanLoop(d, disk.log.lines) EXCEPT !.log = NoLog]
    /\ UNCHANGED <<server, decode, util>>

NextClean ==
    \/ WriteFile
    \/ RemoveFile
    \/ log_artifact
    \/ clean

SpecClean == InitClean /\ [][NextClean]_vars

(***************************************************************************)
(* Properties                                                              *)
(***************************************************************************)
\* The globals have not been assigned since the request in flight arrived
\* (a gen is given to one object only, and a load rebinds pipeline first).
Stable == req.start = Gens

Loaded(g) == g.pipeline # 0 /\ g.feature_info # 0

\* C1: whenever startup_event is not running (it has not run yet, or it has
\* finished with whatever outcome), pipeline, feature_info and
\* sample_input_for_docs are all None or all set, and encoders is set only
\* when pipeline is.
C1_BundleAllOrNothing ==
    st.pc = "idle" =>
        /\ \/ pipeline = 0 /\ feature_info.gen = 0 /\ sample_input_for_docs.gen = 0
           \/ pipeline # 0 /\ feature_info.gen # 0 /\ sample_input_for_docs.gen # 0
        /\ encoders.gen # 0 => pipeline # 0

\* A second load has failed after the first one had loaded a bundle with
\* encoders, and startup_event has returned.
C1_Witness ==
    /\ st.pc = "idle" /\ st.outcome = "failed"
    /\ st.before.pipeline # 0 /\ st.before.encoders # 0
    /\ pipeline = 0

\* C2: when a load that started on a READY bundle has failed, the globals
\* hold the very objects they held when the load started.
C2_FailedReloadKeepsBundle ==
    (st.pc = "idle" /\ st.outcome \in {"failed", "no_model"} /\ Loaded(st.before))
        => Gens = st.before

\* C3: every invocation of the pipeline by a request is made with the
\* feature_info and the encoders of the same load as the pipeline.
C3_OneBundlePerRequest ==
    \A k \in 1..Len(req.calls) :
        /\ req.calls[k].pipeline = req.schema
        /\ req.encGens \subseteq {req.calls[k].pipeline}

Done == req.pc = "done"

Predicting == req.kind \in {"predict", "batch"}

\* The encoder of feature f in the encoders global (0 when it has none).
EncoderOf(f) ==
    IF \E k \in 1..Len(encoders.items) : encoders.items[k].name = f
    THEN CHOOSE k \in 1..Len(encoders.items) : encoders.items[k].name = f
    ELSE 0

InVocabulary(v, classes_) ==
    v.t = "str" /\ \E c \in 1..Len(classes_) : classes_[c] = v.s

\* The features of a sample whose value the encoders do not know.
UnknownOf(sample) ==
    {f \in DOMAIN sample :
        EncoderOf(f) # 0 /\ ~InVocabulary(sample[f], encoders.items[EncoderOf(f)].classes_)}

\* The feature names a sample lacks.
MissingOf(sample) ==
    {feature_info.feature_names[k] : k \in 1..Len(feature_info.feature_names)}
        \ DOMAIN sample

\* A request for a prediction that has been answered by a bundle that was
\* loaded when it arrived and stayed in place.
Answered == Predicting /\ Done /\ Stable /\ Loaded(req.start)

RejectedByCheck ==
    req.resp.kind \in {"not_loaded", "no_samples_key", "samples_not_a_list",
                       "unknown_value", "missing", "dataframe_error"}

\* C4: the pipeline is invoked only after the not-loaded check, the encoding
\* of every sample and the missing-feature check of every sample have
\* passed (the rows it is given hold a value for every feature and no
\* unencoded categorical value), and a request rejected by one of the checks
\* has not invoked it.
C4_ChecksBeforePredict ==
    /\ \A k \in 1..Len(req.events) :
          req.events[k].e = "predict" =>
            /\ req.events[1] = Event("loaded", 0)
            /\ \A i \in 1..Len(req.sent) :
                  \E j \in 1..(k-1) : req.events[j] = Event("validate", i - 1)
            /\ (Stable /\ Truthy(encoders)) =>
                  \A i \in 1..Len(req.sent) :
                     \E j \in 1..(k-1) : req.events[j] = Event("encode", i - 1)
    /\ \A c \in 1..Len(req.calls) :
          /\ \A i \in 1..Len(req.calls[c].rows) :
                \A f \in 1..Len(req.calls[c].rows[i]) : req.calls[c].rows[i][f] # NaN
          /\ Stable => \A i \in 1..Len(req.sent) : UnknownOf(req.sent[i]) = {}
    /\ (Predicting /\ Done /\ RejectedByCheck) => req.calls = <<>>

\* A batch of two samples has been encoded, validated and predicted.
C4_Witness ==
    /\ req.kind = "batch" /\ Done /\ req.resp.status = 200
    /\ Len(req.sent) = 2 /\ Truthy(encoders) /\ Len(req.calls) = 1

C6_Original ==
    (Answered /\ req.kind = "predict" /\ MissingOf(req.sent[1]) # {}) =>
        /\ req.resp.status = 400 /\ req.resp.kind = "missing"
        /\ SeqToSet(req.resp.missing) = MissingOf(req.sent[1])

\* C6 amended: every /predict payload that lacks a feature name and holds no
\* categorical value unknown to the encoders is answered 400 with exactly
\* the missing names, each once.
C6_MissingExactly ==
    (Answered /\ req.kind = "predict" /\ MissingOf(req.sent[1]) # {}
              /\ UnknownOf(req.sent[1]) = {}) =>
        /\ req.resp.status = 400 /\ req.resp.kind = "missing"
        /\ SeqToSet(req.resp.missing) = MissingOf(req.sent[1])
        /\ Len(req.resp.missing) = Cardinality(MissingOf(req.sent[1]))

\* A payload lacking two features, with encoders loaded, has been rejected.
C6_Witness ==
    /\ Answered /\ req.kind = "predict" /\ Truthy(encoders)
    /\ Cardinality(MissingOf(req.sent[1])) = 2
    /\ req.resp.kind = "missing"

\* C7: a sample is checked for missing features only after every sample has
\* been encoded, so a request with an unknown categorical value in one
\* sample and a missing feature in one sample is rejected for the unknown
\* value.
C7_EncodingBeforeValidation ==
    /\ \A j \in 1..Len(req.events) :
          req.events[j].e = "validate" =>
            /\ \A k \in 1..Len(req.events) : req.events[k].e = "encode" => k < j
            /\ (Stable /\ Truthy(encoders)) =>
                  \A i \in 1..Len(req.sent) :
                     \E k \in 1..(j-1) : req.events[k] = Event("encode", i - 1)
    /\ (Answered /\ (\E i \in 1..Len(req.sent) : UnknownOf(req.sent[i]) # {})
                 /\ (\E i \in 1..Len(req.sent) : MissingOf(req.sent[i]) # {})) =>
          req.resp.status = 400 /\ req.resp.kind = "unknown_value"

\* A batch whose first sample lacks a feature and whose second sample holds
\* an unknown value has been rejected.
C7_Witness ==
    /\ Answered /\ req.kind = "batch" /\ Len(req.sent) = 2
    /\ MissingOf(req.sent[1]) # {} /\ UnknownOf(req.sent[1]) = {}
    /\ UnknownOf(req.sent[2]) # {}

\* The sample an error answer is about.
FailingSample ==
    IF req.resp.kind = "unknown_value" THEN Len(req.encoded) + 1
    ELSE IF req.kind = "batch" THEN req.resp.index + 1
    ELSE 1

\* C8: apply_categorical_encoding replaces the value of every feature that
\* has an encoder by the position of the value in the encoder's vocabulary,
\* and answers a value outside the vocabulary with a 400 that names the
\* feature, the value and the whole vocabulary in its order.
C8_EncodingResult ==
    /\ (Predicting /\ Stable /\ Truthy(encoders)) =>
          \A i \in 1..Len(req.encoded) :
             \A f \in DOMAIN req.sent[i] :
                EncoderOf(f) # 0 =>
                   LET classes_ == encoders.items[EncoderOf(f)].classes_ IN
                   /\ InVocabulary(req.sent[i][f], classes_)
                   /\ req.encoded[i][f].t = "num"
                   /\ \E c \in 1..Len(classes_) :
                         classes_[c] = req.sent[i][f].s /\ req.encoded[i][f].i = c - 1
    /\ (Answered /\ req.resp.kind = "unknown_value") =>
          LET f == req.resp.feature
              sample == req.sent[FailingSample]
          IN /\ req.resp.status = 400
             /\ f \in DOMAIN sample /\ EncoderOf(f) # 0
             /\ req.resp.value = sample[f]
             /\ ~InVocabulary(sample[f], encoders.items[EncoderOf(f)].classes_)
             /\ req.resp.valid = encoders.items[EncoderOf(f)].classes_
    /\ (Answered /\ \E i \in 1..Len(req.sent) : UnknownOf(req.sent[i]) # {}) =>
          req.resp.kind = "unknown_value"

\* A value has been encoded to a code other than 0 and the same request has
\* then been refused for an unknown value of another sample.
C8_Witness ==
    /\ Answered /\ req.kind = "batch" /\ req.resp.kind = "unknown_value"
    /\ Len(req.encoded) = 1
    /\ "color" \in DOMAIN req.encoded[1] /\ req.encoded[1]["color"] = Num(1)

\* C9 as stated: a validation error names every missing feature and every
\* feature with an unknown value of the payload it is about.
C9_Original ==
    (Answered /\ req.resp.kind \in {"unknown_value", "missing"}) =>
        (IF req.resp.kind = "unknown_value" THEN {req.resp.feature}
         ELSE SeqToSet(req.resp.missing))
          = UnknownOf(req.sent[FailingSample]) \cup MissingOf(req.sent[FailingSample])

\* C9 amended: a missing-feature error lists every missing feature of the
\* sample it is about and is given only when no sample holds an unknown
\* categorical value; an unknown-value error names one feature, the first
\* in the order of the encoders whose value is unknown, and no missing one.
C9_ErrorNames ==
    /\ (Answered /\ req.resp.kind = "missing") =>
          /\ SeqToSet(req.resp.missing) = MissingOf(req.sent[FailingSample])
          /\ \A i \in 1..Len(req.sent) : UnknownOf(req.sent[i]) = {}
    /\ (Answered /\ req.resp.kind = "unknown_value") =>
          /\ req.resp.feature \in UnknownOf(req.sent[FailingSample])
          /\ \A f \in UnknownOf(req.sent[FailingSample]) :
                EncoderOf(req.resp.feature) <= EncoderOf(f)
          /\ req.resp.missing = <<>>

\* A payload with two unknown values and a missing feature has been refused.
C9_Witness ==
    /\ Answered /\ req.kind = "predict" /\ req.resp.kind = "unknown_value"
    /\ Cardinality(UnknownOf(req.sent[1])) = 2
    /\ MissingOf(req.sent[1]) # {}

\* C10: a batch with a sample that holds an unknown categorical value or
\* lacks a feature is answered 400 without any prediction, and the answer
\* gives the index of such a sample.
C10_BatchRejectedWithIndex ==
    (Answered /\ req.kind = "batch"
       /\ \E i \in 1..Len(req.sent) :
             UnknownOf(req.sent[i]) # {} \/ MissingOf(req.sent[i]) # {}) =>
        /\ req.resp.status = 400 /\ req.resp.results = <<>>
        /\ req.resp.index \in 0..(Len(req.sent) - 1)
        /\ LET sample == req.sent[req.resp.index + 1]
           IN UnknownOf(sample) # {} \/ MissingOf(sample) # {}

\* The request in flight has done e.
Did(e) == \E k \in 1..Len(req.events) : req.events[k].e = e

\* C11: a request whose pipeline invocation raised is answered 500
\* 'prediction failed'; a request that got as far as invoking the pipeline
\* (its input passed validation) is answered 200 or 500, never 400; and a
\* request answered 500 had invoked the pipeline (a rejected input is never
\* answered 500).
C11_FailureClasses ==
    (Predicting /\ Done) =>
        /\ Did("raised") =>
              req.resp.status = 500 /\ req.resp.kind = "prediction_failed"
        /\ Did("predict") => req.resp.status \in {200, 500}
        /\ RejectedByCheck => req.resp.status \in {400, 503}
        /\ req.resp.status = 500 => Did("predict")

\* The pipeline of a batch request with valid samples has raised, and the
\* request has been answered.
C11_Witness ==
    /\ req.kind = "batch" /\ Done /\ Did("raised")
    /\ Len(req.sent) = 2 /\ req.resp.status = 500

\* make_predictions has returned for the raw output of decode.
Decoded == decode.pc \in {"decoded", "formatted"}

\* The raw output is a vector or a matrix of one column.
SingleColumn(raw) ==
    \/ raw.ndim = 1
    \/ raw.ndim = 2 /\ \A k \in 1..Len(raw.rows) : Len(raw.rows[k]) = 1

\* The raw output is a matrix of more than one column.
MultiColumn(raw) ==
    raw.ndim = 2 /\ Len(raw.rows) > 0
        /\ \A k \in 1..Len(raw.rows) : Len(raw.rows[k]) > 1

\* Every value of a raw output lies in [0, 1].
InUnitInterval(raw) ==
    \A k \in 1..Len(Flatten(raw)) : Flatten(raw)[k] >= 0 /\ Flatten(raw)[k] <= 10

\* C12: for classification and a floating-point vector (or one-column
\* matrix) whose values all lie in [0, 1], every value p is decoded to label
\* 1 iff p > 0.5 and to the probability row [1-p, p], and the label is the
\* argmax of that row.
C12_BinaryDecoding ==
    (Decoded /\ decode.task_type = "classification"
        /\ SingleColumn(decode.raw) /\ decode.raw.dtype \in FloatingDtypes
        /\ InUnitInterval(decode.raw)) =>
        /\ decode.out.has_probabilities
        /\ Len(decode.out.predictions) = Len(decode.raw.rows)
        /\ \A k \in 1..Len(decode.raw.rows) :
              LET p == decode.raw.rows[k][1] IN
              /\ decode.out.predictions[k] = Integer(IF p > 5 THEN 1 ELSE 0)
              /\ decode.out.probabilities[k] = <<10 - p, p>>
              /\ decode.out.predictions[k].v = ArgMax(decode.out.probabilities[k])

\* C13: for classification and a raw matrix of more than one column, the
\* probabilities are the raw matrix and the label of every row is the index
\* of its largest entry (the first one when several are largest).
C13_MulticlassDecoding ==
    (Decoded /\ decode.task_type = "classification" /\ MultiColumn(decode.raw)) =>
        /\ decode.out.has_probabilities
        /\ decode.out.probabilities = decode.raw.rows
        /\ Len(decode.out.predictions) = Len(decode.raw.rows)
        /\ \A k \in 1..Len(decode.raw.rows) :
              LET row == decode.raw.rows[k]
                  label == decode.out.predictions[k]
              IN /\ label.dtype = "int"
                 /\ label.v + 1 \in 1..Len(row)
                 /\ \A j \in 1..Len(row) : row[j] <= row[label.v + 1]
                 /\ \A j \in 1..label.v : row[j] < row[label.v + 1]

\* A matrix of two rows and three columns has been decoded; its second row
\* has its largest entry twice.
C13_Witness ==
    /\ Decoded /\ decode.task_type = "classification"
    /\ decode.raw.ndim = 2 /\ decode.raw.rows = << <<5, 8, 5>>, <<5, 8, 8>> >>
    /\ decode.out.predictions = <<Integer(1), Integer(1)>>

\* C14: make_predictions returns no probabilities for a task type other than
\* classification, nor for classification of a vector that is not a
\* floating-point vector inside [0, 1]; it returns probabilities only for
\* classification of a matrix of several columns or of a floating-point
\* vector inside [0, 1].
C14_NoProbabilities ==
    Decoded =>
        /\ decode.task_type # "classification" => ~decode.out.has_probabilities
        /\ (decode.task_type = "classification" /\ SingleColumn(decode.raw)
               /\ ~(decode.raw.dtype \in FloatingDtypes /\ InUnitInterval(decode.raw)))
              => ~decode.out.has_probabilities
        /\ decode.out.has_probabilities =>
              /\ decode.task_type = "classification"
              /\ \/ MultiColumn(decode.raw)
                 \/ decode.raw.dtype \in FloatingDtypes /\ InUnitInterval(decode.raw)
        /\ ~decode.out.has_probabilities => decode.out.probabilities = <<>>

\* A classification output of the integer labels 0 and 1 has been decoded
\* without probabilities.
C14_Witness ==
    /\ Decoded /\ ~decode.out.has_probabilities
    /\ decode.task_type = "classification"
    /\ decode.raw = Vector("int64", <<0, 1>>)

\* format_prediction_response has returned for what make_predictions gave.
Formatted == decode.pc = "formatted"

\* C15: the result always has 'prediction' and 'task_type'; for
\* classification it has 'probabilities' and 'confidence' exactly when
\* make_predictions produced probabilities, the probabilities being the row
\* it was given and the confidence the largest entry of that row; for any
\* other task type it has neither key.
C15_ClassificationKeys ==
    Formatted =>
        LET result == decode.result IN
        /\ {"prediction", "task_type"} \subseteq result.keys
        /\ result.task_type = Lower(Get(decode.fi.task_type, "unknown"))
        /\ result.task_type = "classification" =>
              /\ "probabilities" \in result.keys <=> decode.out.has_probabilities
              /\ "confidence" \in result.keys <=> decode.out.has_probabilities
              /\ decode.out.has_probabilities =>
                    /\ result.probabilities = decode.out.probabilities[decode.i]
                    /\ \E j \in 1..Len(result.probabilities) :
                          result.confidence = result.probabilities[j]
                    /\ \A j \in 1..Len(result.probabilities) :
                          result.probabilities[j] <= result.confidence
        /\ result.task_type # "classification" =>
              result.keys \cap {"probabilities", "confidence"} = {}

\* The second sample of a classification output has been formatted with the
\* probabilities [0.2, 0.8] and the confidence 0.8.
C15_Witness ==
    /\ Formatted /\ decode.result.task_type = "classification"
    /\ decode.how = "batch" /\ decode.i = 2
    /\ decode.result.probabilities = <<2, 8>> /\ decode.result.confidence = 8

\* C16 as stated: for regression the result has 'predicted_value' equal to
\* 'prediction'; for clustering it has 'cluster_id' equal to 'prediction' and
\* the label 'Cluster_<id>' built from that id.
C16_Original ==
    Formatted =>
        LET result == decode.result IN
        /\ result.task_type = "regression" =>
              /\ "predicted_value" \in result.keys
              /\ result.predicted_value = result.prediction
        /\ result.task_type = "clustering" =>
              /\ {"cluster_id", "cluster"} \subseteq result.keys
              /\ result.cluster_id = result.prediction
              /\ result.cluster = [text |-> "Cluster_", id |-> result.prediction]

\* C16 amended: as stated when 'prediction' holds a value; when it is None
\* (the predictions list was empty) 'cluster_id' is None and the label is
\* 'Unknown'.
C16_TaskKeys ==
    Formatted =>
        LET result == decode.result IN
        /\ result.task_type = "regression" =>
              /\ "predicted_value" \in result.keys
              /\ result.predicted_value = result.prediction
        /\ result.task_type = "clustering" =>
              /\ {"cluster_id", "cluster"} \subseteq result.keys
              /\ result.cluster_id = result.prediction
              /\ result.prediction # NoneValue =>
                    result.cluster = [text |-> "Cluster_", id |-> result.prediction]
              /\ result.prediction = NoneValue =>
                    result.cluster = [text |-> "Unknown", id |-> NoneValue]

\* A clustering output of two cluster ids has been formatted for its second
\* sample, cluster 3.
C16_Witness ==
    /\ Formatted /\ decode.result.task_type = "clustering"
    /\ decode.raw = Vector("int64", <<1, 3>>) /\ decode.i = 2
    /\ decode.result.cluster_id = [dtype |-> "int64", v |-> 3]
    /\ decode.result.cluster.text = "Cluster_"

\* C17: every 200 answer of /predict and every entry of a 200 answer of
\* /predict/batch has 'input_features' equal to the sample the caller sent:
\* a feature of the Encoder Set is echoed with the caller's categorical
\* value, not with its integer code.
C17_EchoesInput ==
    (Answered /\ req.resp.status = 200) =>
        /\ Len(req.resp.results) = Len(req.sent)
        /\ \A i \in 1..Len(req.sent) :
              /\ "input_features" \in req.resp.results[i].keys
              /\ req.resp.results[i].input_features = req.sent[i]

\* The names of the example served by GET /predict/example.
ExampleNames ==
    {sample_input_for_docs.example[k].name :
        k \in 1..Len(sample_input_for_docs.example)}

\* The example holds every feature name and, for every encoder whose feature
\* it holds, the first class of that encoder.
ExampleComplete ==
    /\ SeqToSet(feature_info.feature_names) \subseteq ExampleNames
    /\ \A j \in 1..Len(encoders.items) :
          encoders.items[j].name \in ExampleNames =>
             ExamplePayload(sample_input_for_docs.example)[encoders.items[j].name]
                = Str(encoders.items[j].classes_[1])

\* The request in flight posted the example to /predict.
PostedExample ==
    /\ Answered /\ req.kind = "predict"
    /\ req.sent[1] = ExamplePayload(sample_input_for_docs.example)

C19_TrainedArtifactsLoad ==
    (st.pc = "idle"
        /\ st.artifact \in {"fitted_pipeline.pkl", "lightautoml_model.pkl"}) =>
        /\ st.outcome = "loaded"
        /\ pipeline # 0 /\ feature_info.gen # 0
        /\ (Done /\ req.kind = "health") => req.resp.model_loaded
        /\ (Done /\ req.kind = "predict" /\ MissingOf(req.sent[1]) = {}
               /\ UnknownOf(req.sent[1]) = {} /\ ~Did("raised")
               /\ ~make_predictions(req.raw, req.task_type).raised) =>
              /\ req.resp.status = 200
              /\ "prediction" \in req.resp.results[1].keys

\* C20: startup_event never crashes the process, whatever the configuration
\* file and the artifact directory hold, and a load that did not succeed
\* leaves every global None.
C20_StartupNeverCrashes ==
    /\ ~crashed
    /\ (st.pc = "idle" /\ st.outcome \in {"failed", "no_model"}) =>
          Gens = NoGens /\ PredictionPayload = 0

\* C21: the field rule of a feature follows its type hint, matched without
\* regard to case: a hint containing 'int' gives integer; otherwise a hint
\* containing 'float' or 'number' gives float; any other hint, or none,
\* gives float.
C21_FieldKinds ==
    util.pc = "fields" =>
        \A k \in 1..Len(util.fields) :
            LET hint == util.feature_types[util.feature_names[k]]
                ft == StrLower(hint.text)
            IN /\ util.fields[k].name = util.feature_names[k]
               /\ util.fields[k].kind =
                      IF hint.kind = "str" /\ Contains(ft, <<"i","n","t">>)
                      THEN "int" ELSE "float"

\* The entry of feature_statistics the k-th example value was built from.
EntryOf(k) ==
    IF util.has_statistics
    THEN util.doc.feature_statistics[util.doc.feature_names[k]]
    ELSE NoEntry

\* The statistic the priority mean, median, midpoint of min and max picks
\* from an entry, in thousandths; 1.0 when it offers none.
Preferred(entry) ==
    CASE entry.kind # "dict" -> 1000
      [] entry.kind = "dict" /\ entry.mean.has -> entry.mean.m
      [] entry.kind = "dict" /\ ~entry.mean.has /\ entry.median.has ->
             entry.median.m
      [] entry.kind = "dict" /\ ~entry.mean.has /\ ~entry.median.has
            /\ entry.min.has /\ entry.max.has ->
             (entry.min.m + entry.max.m) \div 2
      [] OTHER -> 1000

\* C22 as stated: every feature name gets exactly one example value, which is
\* the mean, else the median, else the midpoint of min and max, else 1.0.
C22_Original ==
    util.pc = "example" =>
        /\ Len(util.example) = Len(util.doc.feature_names)
        /\ \A k \in 1..Len(util.example) :
              /\ util.example[k].name = util.doc.feature_names[k]
              /\ util.example[k].value = Dec(Preferred(EntryOf(k)))

\* C22: every feature name gets exactly one example value: the mean, else the
\* median, else the midpoint of min and max, else 1.0, rounded to two
\* decimals.
C22_ExampleValues ==
    util.pc = "example" =>
        /\ Len(util.example) = Len(util.doc.feature_names)
        /\ \A k \in 1..Len(util.example) :
              /\ util.example[k].name = util.doc.feature_names[k]
              /\ util.example[k].value = Dec(Round2(Preferred(EntryOf(k))))

\* An example was built for a feature that has a mean with three decimals and
\* a different median.
C22_Witness ==
    /\ util.pc = "example"
    /\ util.has_statistics
    /\ LET entry == util.doc.feature_statistics["a"]
       IN /\ entry.kind = "dict"
          /\ entry.mean.has /\ entry.median.has
          /\ entry.mean.m # entry.median.m
          /\ Round2(entry.mean.m) # entry.mean.m
          /\ util.example[2].value = Dec(Round2(entry.mean.m))

\* The object holds a NumPy scalar or array somewhere: itself, one of its
\* items or one of its keys.
RECURSIVE HasNumpy(_)
HasNumpy(obj) ==
    \/ obj.tag \in NumpyScalars \cup {"ndarray"}
    \/ \E k \in 1..Len(obj.keys) : HasNumpy(obj.keys[k])
    \/ \E k \in 1..Len(obj.items) : HasNumpy(obj.items[k])

\* The object is built of plain numbers, strings, booleans, lists and
\* mappings only.
RECURSIVE IsPlain(_)
IsPlain(obj) ==
    /\ obj.tag \in {"int", "float", "bool", "str", "list", "dict"}
    /\ \A k \in 1..Len(obj.keys) : IsPlain(obj.keys[k])
    /\ \A k \in 1..Len(obj.items) : IsPlain(obj.items[k])

\* C23: whatever the nesting of lists, tuples, mappings and arrays, and
\* wherever the NumPy values are (leaves or mapping keys), the output of
\* convert_numpy_types holds no NumPy type: it is built of plain numbers,
\* strings, booleans, lists and mappings only.
C23_NoNumpyLeft ==
    util.pc = "converted" => ~HasNumpy(util.converted) /\ IsPlain(util.converted)

\* The features the Encoder Set given to apply_categorical_encoding covers.
Covered == {util.encoders.items[k].name : k \in 1..Len(util.encoders.items)}

\* C24: the result of apply_categorical_encoding has the keys of the payload
\* and, for every feature the Encoder Set does not cover, the value of the
\* payload; with no Encoder Set, or with an empty one, the result is the
\* payload itself (and no payload is refused).
C24_PassThrough ==
    /\ util.pc = "encoded" =>
          /\ DOMAIN util.encoded = DOMAIN util.payload
          /\ \A f \in DOMAIN util.payload :
                f \notin Covered => util.encoded[f] = util.payload[f]
    /\ util.pc \in {"encoded", "refused"} /\ Covered = {} =>
          util.pc = "encoded" /\ util.encoded = util.payload

\* A payload was encoded that has a covered feature, a feature that is not
\* covered, and lacks a feature the Encoder Set covers.
C24_Witness ==
    /\ util.pc = "encoded"
    /\ \E f \in DOMAIN util.payload :
          f \in Covered /\ util.encoded[f] # util.payload[f]
    /\ \E f \in DOMAIN util.payload :
          f \notin Covered /\ util.encoded[f] = util.payload[f]
    /\ \E f \in Covered : f \notin DOMAIN util.payload

\* The number of times the request in flight has invoked the pipeline.
Invocations == Cardinality({k \in 1..Len(req.events) : req.events[k].e = "predict"})

\* C25: a POST /predict/batch request invokes the pipeline at most once; one
\* that reached prediction (the frame was built and a pipeline is in place)
\* has invoked it exactly once, on one frame that holds a row for every
\* sample sent, in the order sent.
C25_OneInvocation ==
    req.kind = "batch" =>
        /\ Invocations <= 1
        /\ Len(req.calls) = Invocations
        /\ (req.pc = "format" \/ (Done /\ req.resp.status \in {200, 500}
                                       /\ req.calls # <<>>)) =>
              /\ Invocations = 1
              /\ Len(req.calls[1].rows) = Len(req.sent)
              /\ \A i \in 1..Len(req.sent) :
                    /\ req.calls[1].rows[i] = Row(req.feature_names, req.samples[i])
                    /\ \A k \in 1..Len(req.feature_names) :
                          EncoderOf(req.feature_names[k]) = 0 =>
                              req.calls[1].rows[i][k] =
                                  req.sent[i][req.feature_names[k]]
        /\ (Done /\ req.resp.status = 200) => Invocations = 1

\* A batch of two different samples has been predicted and answered.
C25_Witness ==
    /\ req.kind = "batch" /\ Done /\ req.resp.status = 200
    /\ Len(req.sent) = 2 /\ req.sent[1] # req.sent[2]
    /\ Len(req.calls) = 1
    /\ req.calls[1].rows[1] # req.calls[1].rows[2]

\* The paths recorded in the log that clean has read.
Recorded == SeqToSet(disk.before.log.lines)

\* C26: clean deletes every recorded path that is an existing file, skips the
\* recorded paths that do not exist, removes the log and leaves every file
\* that is not recorded alone; without a log it changes nothing; it exits
\* with success.
C26_CleanFrame ==
    disk.pc = "cleaned" =>
        /\ disk.exit_code = 0
        /\ ~disk.log.exists
        /\ disk.before.log.exists =>
              /\ \A p \in Recorded : p \notin disk.files
              /\ \A p \in disk.before.files \ Recorded : p \in disk.files
              /\ disk.files \subseteq disk.before.files
        /\ ~disk.before.log.exists => disk.files = disk.before.files

\* The keys of sample i of the frame being built, in the order sent.
KeysSent(i) == [k \in 1..Len(util.samples[i]) |-> util.samples[i][k].key]

\* C27: the frame handed to the pipeline has the columns of feature_names in
\* the order of feature_names, and every cell holds the value the sample has
\* under that feature name, whatever the order of the sample's keys; keys
\* that are not feature names are dropped, and samples that hold every
\* feature name are never refused.
C27_ColumnsInOrder ==
    /\ util.pc = "frame" =>
          /\ util.frame.columns = util.names
          /\ Len(util.frame.rows) = Len(util.samples)
          /\ \A i \in 1..Len(util.samples) :
                /\ Len(util.frame.rows[i]) = Len(util.names)
                /\ \A k \in 1..Len(util.names) :
                      \E j \in 1..Len(util.samples[i]) :
                          /\ util.samples[i][j].key = util.names[k]
                          /\ util.frame.rows[i][k] = util.samples[i][j].value
    /\ util.pc = "no_frame" =>
          \E i \in 1..Len(util.samples) :
              ~(SeqToSet(util.names) \subseteq SeqToSet(KeysSent(i)))

\* A frame was built from a sample that has its keys in another order than
\* feature_names and a key that is not a feature name.
C27_Witness ==
    /\ util.pc = "frame"
    /\ \E i \in 1..Len(util.samples) :
          /\ "x" \in SeqToSet(KeysSent(i))
          /\ Filter(KeysSent(i), SeqToSet(util.names)) # util.names
    /\ Len(util.samples) = 2
    /\ KeysSent(1) # KeysSent(2)

\* The categories of the detail strings of the handlers' HTTP errors.
DetailKinds ==
    {"not_loaded", "no_samples_key", "samples_not_a_list", "unknown_value",
     "encoding_error", "missing", "dataframe_error", "prediction_failed",
     "prediction_error"}

\* C28: whatever the bundle and the body (samples that are not JSON objects
\* and a pipeline that raises included), POST /predict and POST
\* /predict/batch end with a 200 response or with an HTTPException of status
\* 400, 500 or 503 that carries a detail string; no other exception leaves
\* the handler.
C28_NoRawException ==
    (Predicting /\ Done) =>
        /\ req.resp.status \in {200, 400, 500, 503}
        /\ req.resp.status = 200 => req.resp.kind = "ok"
        /\ req.resp.status # 200 => req.resp.kind \in DetailKinds
        /\ req.resp.status = 503 <=> req.resp.kind = "not_loaded"
        /\ req.resp.status = 500 <=> req.resp.kind = "prediction_failed"

\* A batch with a sample that is a number has been answered while no Encoder
\* Set was loaded: the TypeError of the missing-feature check became a 400.
C28_Witness ==
    /\ req.kind = "batch" /\ Done
    /\ \E i \in 1..Len(req.sent) : ~IsMapping(req.sent[i])
    /\ ~Truthy(encoders)
    /\ req.resp = HTTPException(400, "prediction_error")

\* C29: entry i of a batch response has the 'prediction' and the
\* 'probabilities' that POST /predict gives for sample i posted alone to the
\* same bundle, whatever the other rows of the batch are.
C29_BatchAgreesWithSingle ==
    decode.pc = "both" =>
        /\ decode.alone.prediction = decode.result.prediction
        /\ "probabilities" \in decode.alone.keys
              <=> "probabilities" \in decode.result.keys
        /\ decode.alone.probabilities = decode.result.probabilities

\* C30: a 200 response of POST /predict/batch has as many entries as
\* 'total_samples' says, 'total_samples' is the number of samples sent, and
\* entry k carries sample_index k and, as input_features, the k-th sample
\* sent.
C30_BatchAligned ==
    (req.kind = "batch" /\ Done /\ req.resp.status = 200) =>
        /\ Len(req.resp.results) = req.resp.total_samples
        /\ req.resp.total_samples = Len(req.sent)
        /\ \A k \in 1..Len(req.resp.results) :
              /\ req.resp.results[k].sample_index = k - 1
              /\ req.resp.results[k].input_features = req.sent[k]

====
